---- MODULE Spec2Model ----
(***************************************************************************)
(* Verification model of two fwupd device drivers:                         *)
(*   - the Parade LSPCON (PS175) I2C driver, fu-parade-lspcon-device.c     *)
(*     (src/unnamed/part_001), together with the register/SPI-flash device *)
(*     it drives;                                                          *)
(*   - the Goodix fingerprint USB driver, fu-goodixfp-device.c.            *)
(*                                                                         *)
(* The driver code is modelled as a small-step machine: every function of  *)
(* the driver is an operator that yields the sequence of primitive steps   *)
(* (bus transfers, ioctls, comparisons) the function executes, in program  *)
(* order; the variable todo is the rest of the running call.  A primitive  *)
(* that fails sets the error and unwinds the call, running only the        *)
(* g_autoptr cleanup of a guard that is held.                              *)
(*                                                                         *)
(* Geometry: the flash is scaled.  A page window holds WindowSize bytes    *)
(* (256 in the source) and an erase block holds PagesPerBlock windows      *)
(* (256 in the source), so that `a >> 16` is a \div FLASH_BLOCK_SIZE,      *)
(* `(a >> 8) & 0xff` is (a \div WindowSize) % PagesPerBlock and `a & 0xff` *)
(* is a % WindowSize.  Register and data bytes keep their width (0..255).  *)
(***************************************************************************)
EXTENDS Integers, Sequences, FiniteSets, TLC

(* The fields of an event of the bus log (k and what it carries) and of a  *)
(* step of the driver (op and its operands); both are listed below.        *)
Fields ==
    [k |-> "none", op |-> "none", addr |-> 0, cur |-> 0, total |-> 0, page |-> 0,
     expect |-> 0, reg |-> 0, val |-> 0, mask |-> 0, expected |-> 0, n |-> 0,
     err |-> "none", cmd |-> <<>>, data |-> <<>>, dst |-> "none", fn |-> "none",
     off |-> 0, start |-> 0, take |-> 0, size |-> 0, status |-> "none",
     what |-> "none"]

(* ------------------------------ bounds --------------------------------- *)
WindowSize == 4
PagesPerBlock == 2
MaxPolls == 2
MaxBadCells == 1
GxMaxReads == 5
GxBlockSize == 2
GxMaxImage == 5

(* ------------------------- program constants --------------------------- *)
I2C_ADDR_PAGE2 == 74
I2C_ADDR_PAGE5 == 77
I2C_ADDR_PAGE7 == 79
REG_ADDR_CLT2SPI == 130
REG_ADDR_FLASH_ADDR_LO == 142
REG_ADDR_FLASH_ADDR_HI == 143
REG_ADDR_WR_FIFO == 144
REG_ADDR_RD_FIFO == 145
REG_ADDR_SPI_LEN == 146
REG_ADDR_SPI_CTL == 147
SPI_CTL_NOREAD == 4
SPI_CTL_TRIGGER == 1
REG_ADDR_SPI_STATUS == 158
SPI_STATUS_SE_MASK == 12
REG_ADDR_WR_PROTECT == 179
WR_PROTECT_DISABLE == 16
REG_ADDR_MPU == 188
REG_ADDR_MAP_WRITE == 218
REG_ADDR_ACTIVE_PARTITION == 14
FLASH_BLOCK_SIZE == PagesPerBlock * WindowSize
NumBlocks == 4

(* SPI flash opcodes used by the driver *)
CMD_WRITE_ENABLE == 6
CMD_WRITE_SR_VOLATILE == 80
CMD_WRITE_SR == 1
CMD_READ_SR == 5
CMD_BLOCK_ERASE == 216
SR_BUSY == 1
SR_BP_MASK == 12
SR_SRP == 128
ERASED == 255

(* ------------------------------ helpers -------------------------------- *)
Min(a, b) == IF a < b THEN a ELSE b

RECURSIVE BitAnd(_, _)
BitAnd(a, b) ==
    IF a = 0 \/ b = 0 THEN 0
    ELSE (a % 2) * (b % 2) + 2 * BitAnd(a \div 2, b \div 2)

Byte(v) == v % 256

(* the three bytes of a flash address: a >> 16, a >> 8, a (each as guint8) *)
AddrHi(a) == Byte(a \div FLASH_BLOCK_SIZE)
AddrMid(a) == (a \div WindowSize) % PagesPerBlock
AddrLo(a) == a % WindowSize

FlashAddrs == 0 .. (NumBlocks * FLASH_BLOCK_SIZE - 1)
BlockOf(a) == a \div FLASH_BLOCK_SIZE
BlockAddrs(b) == (b * FLASH_BLOCK_SIZE) .. ((b + 1) * FLASH_BLOCK_SIZE - 1)
BlockData(f, b) == [i \in 1 .. FLASH_BLOCK_SIZE |-> f[b * FLASH_BLOCK_SIZE + i - 1]]

unlock_writes == <<170, 85, 80, 65, 82, 68>>

(* the flag record the boot loader accepts for user partition p *)
ValidFlag(p) == <<85, 170, p, (256 + 1 - p) % 256>>

(* ----------------------------- variables ------------------------------- *)
VARIABLES
    dev,        \* registers of the LSPCON and state of its SPI flash
    flash,      \* flash contents, address -> byte
    self,       \* FuParadeLspconDevice fields and FuDevice attributes
    drv,        \* the running call: operation, result, error, lifecycle stage
    loc,        \* locals of the running call
    todo,       \* remaining primitive steps of the running call
    busLog,     \* what reached the device: selects, register writes, SPI
                \* commands, window transfers, completions reported to the host
    env,        \* environment: selectable I2C addresses, remaining bad cells
    gx          \* Goodix driver and device state
vars == <<dev, flash, self, drv, loc, todo, busLog, env, gx>>
lspconVars == <<dev, flash, self, drv, loc, todo, busLog, env>>

(* ======================= the device (LSPCON + flash) =================== *)
(* Flash base address mapped into the page-7 window by the page-select     *)
(* registers: writing hi, lo maps the window at (hi << 16) | (lo << 8).    *)
WindowBase(d) == (d.hi * PagesPerBlock + d.lo) * WindowSize

FlashByte(f, a) == IF a \in FlashAddrs THEN f[a] ELSE ERASED

(* block protection of the flash status register *)
Protected(d) == BitAnd(d.sr, SR_BP_MASK) # 0

(* the status register is locked while SRP is set and /WP is asserted *)
SrLocked(d) == BitAnd(d.sr, SR_SRP) # 0 /\ d.wp # WR_PROTECT_DISABLE

(* The command the SPI master sends when SPI_CTL is triggered: the first   *)
(* (SPI_LEN low nibble + 1) bytes of the write FIFO.                       *)
SpiCommand(d) == SubSeq(d.fifo, 1, Min((d.len % 16) + 1, Len(d.fifo)))

(* Effect of one SPI command on the flash chip. *)
SpiExec(d, f, cmd) ==
    LET d0 == [d EXCEPT !.fifo = <<>>, !.busy = TRUE, !.last = cmd]
        blk == IF Len(cmd) >= 2 THEN cmd[2] ELSE 0
    IN  IF cmd = <<>> THEN [dev |-> d0, flash |-> f]
        ELSE IF cmd[1] = CMD_WRITE_ENABLE
            THEN [dev |-> [d0 EXCEPT !.wel = TRUE], flash |-> f]
        ELSE IF cmd[1] = CMD_WRITE_SR_VOLATILE
            THEN [dev |-> [d0 EXCEPT !.srwe = TRUE], flash |-> f]
        ELSE IF cmd[1] = CMD_WRITE_SR /\ Len(cmd) >= 2
            THEN IF (d.wel \/ d.srwe) /\ ~SrLocked(d)
                 THEN [dev |-> [d0 EXCEPT !.sr = cmd[2], !.wip = TRUE,
                                          !.wel = FALSE, !.srwe = FALSE],
                       flash |-> f]
                 ELSE [dev |-> [d0 EXCEPT !.wel = FALSE, !.srwe = FALSE],
                       flash |-> f]
        ELSE IF cmd[1] = CMD_BLOCK_ERASE /\ Len(cmd) = 4
            THEN IF d.wel /\ ~Protected(d)
                 THEN [dev |-> [d0 EXCEPT !.wel = FALSE, !.wip = TRUE, !.se = 4],
                       flash |-> [a \in FlashAddrs |->
                                    IF BlockOf(a) = blk THEN ERASED ELSE f[a]]]
                 ELSE [dev |-> [d0 EXCEPT !.wel = FALSE], flash |-> f]
        ELSE [dev |-> d0, flash |-> f]

(* Write to a register of page 2. *)
RegWrite(d, f, reg, val) ==
    LET dp == [d EXCEPT !.ptr = reg]
    IN  IF reg = REG_ADDR_FLASH_ADDR_HI THEN [dev |-> [dp EXCEPT !.hi = val], flash |-> f]
        ELSE IF reg = REG_ADDR_FLASH_ADDR_LO THEN [dev |-> [dp EXCEPT !.lo = val], flash |-> f]
        ELSE IF reg = REG_ADDR_WR_FIFO
            THEN [dev |-> [dp EXCEPT !.fifo = IF Len(d.fifo) < 16
                                              THEN Append(d.fifo, val) ELSE d.fifo],
                  flash |-> f]
        ELSE IF reg = REG_ADDR_SPI_LEN THEN [dev |-> [dp EXCEPT !.len = val], flash |-> f]
        ELSE IF reg = REG_ADDR_SPI_CTL
            THEN IF BitAnd(val, SPI_CTL_TRIGGER) # 0
                 THEN SpiExec([dp EXCEPT !.ctl = val], f, SpiCommand(d))
                 ELSE [dev |-> [dp EXCEPT !.ctl = val], flash |-> f]
        ELSE IF reg = REG_ADDR_WR_PROTECT THEN [dev |-> [dp EXCEPT !.wp = val], flash |-> f]
        ELSE IF reg = REG_ADDR_MAP_WRITE
            THEN [dev |-> [dp EXCEPT !.unlock =
                     IF d.unlock < Len(unlock_writes) /\ val = unlock_writes[d.unlock + 1]
                     THEN d.unlock + 1 ELSE 0],
                  flash |-> f]
        ELSE IF reg = REG_ADDR_MPU THEN [dev |-> [dp EXCEPT !.mpu = val], flash |-> f]
        ELSE IF reg = REG_ADDR_CLT2SPI THEN [dev |-> [dp EXCEPT !.clt2spi = val], flash |-> f]
        ELSE [dev |-> dp, flash |-> f]

(* Write through the page-7 window: data[1] is the offset in the window,   *)
(* the rest is programmed into the flash (NOR: bits can only be cleared).  *)
(* The cell with index bad (0: none) fails to program and keeps its value. *)
WindowWrite(d, f, data, bad) ==
    LET off == data[1]
        n == Len(data) - 1
        base == WindowBase(d)
        hit(a) == a >= base + off /\ a < base + off + n /\ a < base + WindowSize
        ok == d.unlock = Len(unlock_writes) /\ ~Protected(d)
    IN  [dev |-> d,
         flash |-> [a \in FlashAddrs |->
                      IF ok /\ hit(a) /\ (a - (base + off) + 1) # bad
                      THEN BitAnd(f[a], data[a - (base + off) + 2])
                      ELSE f[a]]]

(* An I2C write transaction of the bytes data to the selected address. *)
DevI2cWrite(d, f, data, bad) ==
    IF data = <<>> THEN [dev |-> d, flash |-> f]
    ELSE IF d.addr = I2C_ADDR_PAGE2
        THEN IF Len(data) = 1 THEN [dev |-> [d EXCEPT !.ptr = data[1]], flash |-> f]
             ELSE RegWrite(d, f, data[1], data[2])
    ELSE IF d.addr = I2C_ADDR_PAGE5
        THEN [dev |-> [d EXCEPT !.ptr = data[1]], flash |-> f]
    ELSE IF d.addr = I2C_ADDR_PAGE7
        THEN IF Len(data) = 1 THEN [dev |-> d, flash |-> f]
             ELSE WindowWrite(d, f, data, bad)
    ELSE [dev |-> d, flash |-> f]

(* What the device sees of a write transaction. *)
WriteEvents(d, data) ==
    IF d.addr = I2C_ADDR_PAGE7 /\ Len(data) >= 2
        THEN <<[k |-> "winw", addr |-> WindowBase(d) + data[1], data |-> Tail(data)]>>
    ELSE IF d.addr = I2C_ADDR_PAGE2 /\ Len(data) = 2
        THEN IF data[1] = REG_ADDR_SPI_CTL /\ BitAnd(data[2], SPI_CTL_TRIGGER) # 0
                 THEN <<[k |-> "spi", cmd |-> SpiCommand(d)]>>
             ELSE IF data[1] \in {REG_ADDR_WR_FIFO, REG_ADDR_SPI_LEN, REG_ADDR_SPI_CTL}
                 THEN <<>>
             ELSE <<[k |-> "reg", reg |-> data[1], val |-> data[2]]>>
    ELSE IF Len(data) >= 2
        THEN <<[k |-> "stray", page |-> d.addr, data |-> data]>>
    ELSE <<>>

(* An I2C read transaction of n bytes from the selected address.  fin says *)
(* whether the operation in progress has completed by the time of the read.*)
DevI2cRead(d, f, n, fin) ==
    IF d.addr = I2C_ADDR_PAGE7
        THEN [dev |-> d, data |-> [i \in 1 .. n |-> FlashByte(f, WindowBase(d) + i - 1)]]
    ELSE IF d.addr = I2C_ADDR_PAGE5
        THEN [dev |-> d,
              data |-> [i \in 1 .. n |->
                          IF d.ptr = REG_ADDR_ACTIVE_PARTITION THEN d.partition ELSE 0]]
    ELSE IF d.addr = I2C_ADDR_PAGE2
        THEN IF d.ptr = REG_ADDR_SPI_CTL
                 THEN IF d.busy /\ ~fin
                      THEN [dev |-> d, data |-> [i \in 1 .. n |-> d.ctl]]
                      ELSE [dev |-> [d EXCEPT !.busy = FALSE],
                            data |-> [i \in 1 .. n |->
                                        d.ctl - BitAnd(d.ctl, SPI_CTL_TRIGGER)]]
             ELSE IF d.ptr = REG_ADDR_SPI_STATUS
                 THEN LET se == IF fin THEN 0 ELSE d.se
                      IN  [dev |-> [d EXCEPT !.se = se], data |-> [i \in 1 .. n |-> se]]
             ELSE IF d.ptr = REG_ADDR_RD_FIFO
                 THEN LET wip == d.wip /\ ~fin
                      IN  [dev |-> [d EXCEPT !.wip = wip],
                           data |-> [i \in 1 .. n |->
                                       IF d.last = <<CMD_READ_SR>>
                                       THEN d.sr - BitAnd(d.sr, SR_BUSY)
                                            + (IF wip THEN SR_BUSY ELSE 0)
                                       ELSE 0]]
             ELSE IF d.ptr = REG_ADDR_FLASH_ADDR_HI
                 THEN [dev |-> d, data |-> [i \in 1 .. n |-> d.hi]]
             ELSE IF d.ptr = REG_ADDR_FLASH_ADDR_LO
                 THEN [dev |-> d, data |-> [i \in 1 .. n |-> d.lo]]
             ELSE IF d.ptr = REG_ADDR_WR_PROTECT
                 THEN [dev |-> d, data |-> [i \in 1 .. n |-> d.wp]]
             ELSE [dev |-> d, data |-> [i \in 1 .. n |-> 0]]
    ELSE [dev |-> d, data |-> [i \in 1 .. n |-> 0]]

(* What the device sees of a read transaction: window reads, and the       *)
(* reads that report a completion to the host.                            *)
ReadEvents(d, data) ==
    IF d.addr = I2C_ADDR_PAGE7
        THEN <<[k |-> "winr", addr |-> WindowBase(d), data |-> data]>>
    ELSE IF d.addr = I2C_ADDR_PAGE5
        THEN <<[k |-> "rd", page |-> d.addr, reg |-> d.ptr, val |-> data[1]]>>
    ELSE IF d.addr = I2C_ADDR_PAGE2
            /\ \/ d.ptr = REG_ADDR_RD_FIFO /\ BitAnd(data[1], SR_BUSY) = 0
               \/ d.ptr = REG_ADDR_SPI_STATUS /\ BitAnd(data[1], SPI_STATUS_SE_MASK) = 0
        THEN <<[k |-> "rd", page |-> d.addr, reg |-> d.ptr, val |-> data[1]]>>
    ELSE <<>>

(* The log keeps one entry for a repeated read-status command. *)
LogAppend(log, ev) ==
    IF ev # <<>> /\ log # <<>> /\ ev[1] = log[Len(log)]
          /\ ev[1].k = "spi" /\ ev[1].cmd = <<CMD_READ_SR>>
    THEN log ELSE log \o ev

(* ============================ the driver =============================== *)
(* Every function yields the steps it executes.  Steps:                    *)
(*   i2c_write data        fu_i2c_device_write / fu_i2c_device_write_full  *)
(*   i2c_read n dst        fu_i2c_device_read / fu_i2c_device_read_full    *)
(*   ioctl addr            ensure_i2c_address of open                      *)
(*   guard_new addr        i2c_address_guard_new (guard is NULL on failure)*)
(*   check_guard           if (guard == NULL) return FALSE                 *)
(*   guard_dispose         g_autoptr cleanup of the guard                  *)
(*   poll_check            the test and loop condition of a poll loop      *)
(*   ready_check           the test and loop condition of flash_wait_ready *)
(*   memcpy, memcmp, malloc, set_status, progress, fail, return_false      *)
(*   return fn             fn returns TRUE to its caller                   *)

ensure_i2c_address(address) == <<[op |-> "ioctl", addr |-> address]>>

(* the aux device name is not required *)
fu_parade_lspcon_device_probe_NoAuxCheck ==
    <<[op |-> "add_instance_ids"], [op |-> "check_name"], [op |-> "parent_probe"]>>

(* fu_parade_lspcon_device_probe: the instance IDs, the test of the device *)
(* name, the test of the aux device name, the probe of the parent class    *)
fu_parade_lspcon_device_probe ==
    <<[op |-> "add_instance_ids"], [op |-> "check_name"],
      [op |-> "check_aux_name"], [op |-> "parent_probe"]>>

(* open leaves the address as it finds it *)
fu_parade_lspcon_device_open_NoSelect == <<[op |-> "parent_open"]>>

fu_parade_lspcon_device_open ==
    <<[op |-> "parent_open"]>> \o ensure_i2c_address(I2C_ADDR_PAGE2)

i2c_address_guard_new(new_address) == <<[op |-> "guard_new", addr |-> new_address]>>

i2c_address_guard_dispose == <<[op |-> "guard_dispose"]>>

lspcon_write_register(register_addr, value) ==
    <<[op |-> "i2c_write", data |-> <<register_addr, Byte(value)>>]>>

lspcon_read_register(register_addr, dst) ==
    <<[op |-> "i2c_write", data |-> <<register_addr>>],
      [op |-> "i2c_read", n |-> 1, dst |-> dst]>>

(* the low page-select register is written first *)
lspcon_map_page_LowFirst(address) ==
    lspcon_write_register(REG_ADDR_FLASH_ADDR_LO, AddrMid(address))
    \o lspcon_write_register(REG_ADDR_FLASH_ADDR_HI, AddrHi(address))

lspcon_map_page(address) ==
    lspcon_write_register(REG_ADDR_FLASH_ADDR_HI, AddrHi(address))
    \o lspcon_write_register(REG_ADDR_FLASH_ADDR_LO, AddrMid(address))

(* one iteration of the do-while loop of lspcon_poll_register; n counts    *)
(* the reads                                                               *)
PollIteration(register_address, mask, expected, n) ==
    lspcon_read_register(register_address, "value")
    \o <<[op |-> "poll_check", reg |-> register_address, mask |-> mask,
          expected |-> expected, n |-> n]>>

lspcon_poll_register(register_address, mask, expected) ==
    PollIteration(register_address, mask, expected, 1)

(* the bytes are taken from the start of every window *)
RECURSIVE flash_read_loop_FromWindowStart(_, _, _, _)
flash_read_loop_FromWindowStart(base_address, off, len, target_len) ==
    IF len <= 0 THEN <<>>
    ELSE LET page_data_start == AddrLo(base_address)
             page_data_take == Min(len, WindowSize - page_data_start)
         IN  lspcon_map_page(base_address)
             \o i2c_address_guard_new(I2C_ADDR_PAGE7)
             \o <<[op |-> "check_guard"]>>
             \o <<[op |-> "i2c_read", n |-> WindowSize, dst |-> "page_data"]>>
             \o i2c_address_guard_dispose
             \o <<[op |-> "memcpy", off |-> off, start |-> 0,
                   take |-> page_data_take]>>
             \o <<[op |-> "progress", cur |-> target_len - (len - page_data_take),
                   total |-> target_len]>>
             \o flash_read_loop_FromWindowStart(base_address + page_data_take,
                                                off + page_data_take,
                                                len - page_data_take, target_len)

RECURSIVE flash_read_loop(_, _, _, _)
flash_read_loop(base_address, off, len, target_len) ==
    IF len <= 0 THEN <<>>
    ELSE LET page_data_start == AddrLo(base_address)
             page_data_take == Min(len, WindowSize - page_data_start)
         IN  lspcon_map_page(base_address)
             \o i2c_address_guard_new(I2C_ADDR_PAGE7)
             \o <<[op |-> "check_guard"]>>
             \o <<[op |-> "i2c_read", n |-> WindowSize, dst |-> "page_data"]>>
             \o i2c_address_guard_dispose
             \o <<[op |-> "memcpy", off |-> off, start |-> page_data_start,
                   take |-> page_data_take]>>
             \o <<[op |-> "progress", cur |-> target_len - (len - page_data_take),
                   total |-> target_len]>>
             \o flash_read_loop(base_address + page_data_take, off + page_data_take,
                                len - page_data_take, target_len)

flash_read(base_address, len) ==
    flash_read_loop(base_address, 0, len, len)
    \o <<[op |-> "return", fn |-> "flash_read"]>>

RECURSIVE TransmitFifo(_, _)
TransmitFifo(command, i) ==
    IF i > Len(command) THEN <<>>
    ELSE lspcon_write_register(REG_ADDR_WR_FIFO, command[i])
         \o TransmitFifo(command, i + 1)

flash_transmit_command(command) ==
    IF ~(Len(command) > 0 /\ Len(command) <= 16)
    THEN <<[op |-> "return_false"]>>
    ELSE TransmitFifo(command, 1)
         \o lspcon_write_register(REG_ADDR_SPI_LEN, Len(command) - 1)
         \o lspcon_write_register(REG_ADDR_SPI_CTL, SPI_CTL_NOREAD + SPI_CTL_TRIGGER)

flash_enable_write == flash_transmit_command(<<CMD_WRITE_ENABLE>>)

flash_read_status ==
    lspcon_write_register(REG_ADDR_WR_FIFO, CMD_READ_SR)
    \o lspcon_write_register(REG_ADDR_SPI_LEN, 0)
    \o lspcon_write_register(REG_ADDR_SPI_CTL, SPI_CTL_TRIGGER)
    \o lspcon_poll_register(REG_ADDR_SPI_CTL, SPI_CTL_TRIGGER, 0)
    \o lspcon_read_register(REG_ADDR_RD_FIFO, "status_register")

(* mutant: the driver does not wait for the flash *)
flash_wait_ready_Skipped == <<>>

(* one iteration of the do-while loop of flash_wait_ready *)
WaitIteration(n) == flash_read_status \o <<[op |-> "ready_check", n |-> n]>>

flash_wait_ready == WaitIteration(1)

(* every chunk is mapped at the base address *)
RECURSIVE flash_write_loop_SameAddress(_, _, _)
flash_write_loop_SameAddress(base_address, data, bytes_written) ==
    IF bytes_written >= Len(data) THEN <<>>
    ELSE LET chunk_size == Min(Len(data) - bytes_written, WindowSize)
         IN  lspcon_map_page(base_address)
             \o i2c_address_guard_new(I2C_ADDR_PAGE7)
             \o <<[op |-> "i2c_write",
                   data |-> <<0>> \o SubSeq(data, bytes_written + 1,
                                            bytes_written + chunk_size)]>>
             \o i2c_address_guard_dispose
             \o <<[op |-> "progress", cur |-> bytes_written, total |-> Len(data)]>>
             \o flash_write_loop_SameAddress(base_address, data,
                                             bytes_written + WindowSize)

RECURSIVE flash_write_loop(_, _, _)
flash_write_loop(base_address, data, bytes_written) ==
    IF bytes_written >= Len(data) THEN <<>>
    ELSE LET address == base_address + bytes_written
             chunk_size == Min(Len(data) - bytes_written, WindowSize)
         IN  lspcon_map_page(address)
             \o i2c_address_guard_new(I2C_ADDR_PAGE7)
             \o <<[op |-> "i2c_write",
                   data |-> <<0>> \o SubSeq(data, bytes_written + 1,
                                            bytes_written + chunk_size)]>>
             \o i2c_address_guard_dispose
             \o <<[op |-> "progress", cur |-> bytes_written, total |-> Len(data)]>>
             \o flash_write_loop(base_address, data, bytes_written + WindowSize)

RECURSIVE UnlockWrites(_)
UnlockWrites(i) ==
    IF i > Len(unlock_writes) THEN <<>>
    ELSE lspcon_write_register(REG_ADDR_MAP_WRITE, unlock_writes[i]) \o UnlockWrites(i + 1)

flash_write(base_address, data) ==
    IF AddrLo(base_address) # 0
    THEN <<[op |-> "return_false"]>>
    ELSE UnlockWrites(1)
         \o lspcon_write_register(REG_ADDR_CLT2SPI, 32)
         \o lspcon_write_register(REG_ADDR_CLT2SPI, 0)
         \o flash_write_loop(base_address, data, 0)
         \o lspcon_write_register(REG_ADDR_MAP_WRITE, 0)
         \o <<[op |-> "return", fn |-> "flash_write"]>>

flash_erase_block_NoWaitReady(base_address, size) ==
    LET block_erase == <<CMD_BLOCK_ERASE, AddrHi(base_address),
                         AddrMid(base_address), AddrLo(base_address)>>
    IN  IF base_address % FLASH_BLOCK_SIZE # 0 \/ size # FLASH_BLOCK_SIZE
        THEN <<[op |-> "return_false"]>>
        ELSE flash_enable_write
             \o flash_transmit_command(block_erase)
             \o lspcon_poll_register(REG_ADDR_SPI_STATUS, SPI_STATUS_SE_MASK, 0)
             \o <<[op |-> "return", fn |-> "flash_erase_block"]>>

flash_erase_block(base_address, size) ==
    LET block_erase == <<CMD_BLOCK_ERASE, AddrHi(base_address),
                         AddrMid(base_address), AddrLo(base_address)>>
    IN  IF base_address % FLASH_BLOCK_SIZE # 0 \/ size # FLASH_BLOCK_SIZE
        THEN <<[op |-> "return_false"]>>
        ELSE flash_enable_write
             \o flash_transmit_command(block_erase)
             \o lspcon_poll_register(REG_ADDR_SPI_STATUS, SPI_STATUS_SE_MASK, 0)
             \o flash_wait_ready
             \o <<[op |-> "return", fn |-> "flash_erase_block"]>>

probe_active_flash_partition ==
    i2c_address_guard_new(I2C_ADDR_PAGE5)
    \o <<[op |-> "check_guard"]>>
    \o lspcon_read_register(REG_ADDR_ACTIVE_PARTITION, "data")
    \o <<[op |-> "store_partition"]>>
    \o i2c_address_guard_dispose
    \o <<[op |-> "return", fn |-> "probe_active_flash_partition"]>>

fu_parade_lspcon_device_reload ==
    probe_active_flash_partition
    \o <<[op |-> "check_partition"],
         [op |-> "check_aux_name"],
         [op |-> "aux_enumerate"],
         [op |-> "aux_io", what |-> "set_physical_id"],
         [op |-> "aux_io", what |-> "locker_new"],
         [op |-> "aux_io", what |-> "pread_oui"],
         [op |-> "aux_oui"],
         [op |-> "aux_io", what |-> "pread_version"],
         [op |-> "set_version"]>>

set_mpu_running(running) ==
    lspcon_write_register(REG_ADDR_MPU, 192)
    \o lspcon_write_register(REG_ADDR_MPU, IF running THEN 0 ELSE 64)

fu_parade_lspcon_device_detach == set_mpu_running(FALSE)

fu_parade_lspcon_device_attach == set_mpu_running(TRUE)

(* mutant: the first partition is always the target *)
TargetPartition_AlwaysFirst(active_partition) == 1

(* mutant: the test of the active partition is inverted *)
TargetPartition_Inverted(active_partition) == IF active_partition = 1 THEN 1 ELSE 2

TargetPartition(active_partition) == IF active_partition = 1 THEN 2 ELSE 1

(* mutant: the complement byte is target - 1 *)
FlagData_WrongComplement(target_partition) ==
    <<85, 170, target_partition, Byte(target_partition - 1)>>

FlagData(target_partition) == <<85, 170, target_partition, Byte(1 - target_partition)>>

(* mutant: only an image that is too large is rejected *)
InvalidImageSize_TooLargeOnly(firmware_size) == firmware_size > FLASH_BLOCK_SIZE

(* firmware_size != FLASH_BLOCK_SIZE *)
InvalidImageSize(firmware_size) == firmware_size # FLASH_BLOCK_SIZE

fu_parade_lspcon_device_write_firmware(active_partition, firmware) ==
    LET write_sr_volatile == <<CMD_WRITE_SR_VOLATILE>>
        write_sr_disable_bp == <<CMD_WRITE_SR, 128, 0>>
        write_sr_enable_bp == <<CMD_WRITE_SR, 140, 0>>
        target_partition == TargetPartition(active_partition)
        target_address == target_partition * FLASH_BLOCK_SIZE
        flag_data == FlagData(target_partition)
        firmware_size == Len(firmware.data)
    IN  IF ~firmware.blob THEN <<[op |-> "fail", err |-> "no_bytes"]>>
        ELSE IF InvalidImageSize(firmware_size)
        THEN <<[op |-> "fail", err |-> "invalid_size"]>>
        ELSE lspcon_write_register(REG_ADDR_WR_PROTECT, WR_PROTECT_DISABLE)
             \o flash_transmit_command(write_sr_volatile)
             \o flash_transmit_command(write_sr_disable_bp)
             \o flash_wait_ready
             \o <<[op |-> "set_status", status |-> "erase"]>>
             \o flash_erase_block(target_address, firmware_size)
             \o <<[op |-> "set_status", status |-> "write"]>>
             \o flash_write(target_address, firmware.data)
             \o <<[op |-> "set_status", status |-> "verify"],
                  [op |-> "malloc", size |-> firmware_size]>>
             \o flash_read(target_address, firmware_size)
             \o <<[op |-> "memcmp", expect |-> firmware.data, n |-> firmware_size,
                   err |-> "verify_image"]>>
             \o <<[op |-> "set_status", status |-> "erase"]>>
             \o flash_erase_block(0, FLASH_BLOCK_SIZE)
             \o <<[op |-> "set_status", status |-> "write"]>>
             \o flash_write(0, flag_data)
             \o <<[op |-> "set_status", status |-> "verify"]>>
             \o flash_read(0, Len(flag_data))
             \o <<[op |-> "memcmp", expect |-> flag_data, n |-> Len(flag_data),
                   err |-> "verify_flag"]>>
             \o flash_transmit_command(write_sr_volatile)
             \o flash_transmit_command(write_sr_enable_bp)
             \o lspcon_write_register(REG_ADDR_WR_PROTECT, 0)

fu_parade_lspcon_device_dump_firmware(active_partition) ==
    <<[op |-> "malloc", size |-> FLASH_BLOCK_SIZE]>>
    \o flash_read(active_partition * FLASH_BLOCK_SIZE, FLASH_BLOCK_SIZE)

(* ======================= Goodix fingerprint driver ===================== *)
(* The protocol helpers of fu-goodixfp-common.[ch] (header layout, CRC,    *)
(* body parser, command codes) are not part of the sources at hand; they   *)
(* are modelled from the specification: a frame is the header (payload     *)
(* length, cmd0, cmd1, end-of-package flag), the payload and the           *)
(* little-endian CRC32 of header and payload.                              *)
PACKAGE_HEADER_SIZE == 4
GX_CMD_ACK == 170
GX_CMD_VERSION == 208
GX_CMD_RESET == 180
GX_CMD_UPGRADE == 128
GX_CMD_UPGRADE_INIT == 0
GX_CMD_UPGRADE_DATA == 1
GX_CMD1_DEFAULT == 0

(* exclusive or of two 16-bit values *)
BitXor(a, b) ==
    LET x(i) == (((a \div (2 ^ i)) + (b \div (2 ^ i))) % 2) * (2 ^ i)
    IN  x(0) + x(1) + x(2) + x(3) + x(4) + x(5) + x(6) + x(7)
        + x(8) + x(9) + x(10) + x(11) + x(12) + x(13) + x(14) + x(15)

(* a 32-bit word is kept as its two 16-bit halves <<high, low>> *)
Crc32Shift(c) == <<c[1] \div 2, (c[2] \div 2) + 32768 * (c[1] % 2)>>

RECURSIVE Crc32Bits(_, _)
Crc32Bits(c, n) ==
    IF n = 0 THEN c
    ELSE IF c[2] % 2 = 1
    THEN Crc32Bits(<<BitXor(c[1] \div 2, 60856),
                     BitXor((c[2] \div 2) + 32768 * (c[1] % 2), 33568)>>, n - 1)
    ELSE Crc32Bits(Crc32Shift(c), n - 1)

RECURSIVE Crc32Update(_, _, _, _)
Crc32Update(c, buf, i, n) ==
    IF i > n THEN c
    ELSE IF c[2] >= 0
    THEN Crc32Update(Crc32Bits(<<c[1], BitXor(c[2], buf[i])>>, 8), buf, i + 1, n)
    ELSE c

(* CRC32 of the first n bytes of buf *)
gx_proto_crc32_calc(buf, n) ==
    LET c == Crc32Update(<<65535, 65535>>, buf, 1, n)
    IN  <<BitXor(c[1], 65535), BitXor(c[2], 65535)>>

init_pack_header(len, cmd0, cmd1, pkg_eop) == <<len % 256, cmd0, cmd1, pkg_eop>>

Uint32LE_BigEndian(v) == <<v[1] \div 256, v[1] % 256, v[2] \div 256, v[2] % 256>>

(* fu_byte_array_append_uint32 (buf, v, G_LITTLE_ENDIAN) *)
Uint32LE(v) == <<v[2] % 256, v[2] \div 256, v[1] % 256, v[1] \div 256>>

(* GUINT32_FROM_LE (*(guint32 *) p) *)
Uint32FromLE(b) == <<b[3] + 256 * b[4], b[1] + 256 * b[2]>>

(* the frame goodixfp_device_cmd_send builds in buf *)
BuildFrame(cmd0, cmd1, pkg_eop, request) ==
    LET body == init_pack_header(Len(request), cmd0, cmd1, pkg_eop) \o request
    IN  body \o Uint32LE(gx_proto_crc32_calc(body, PACKAGE_HEADER_SIZE + Len(request)))

(* gx_proto_parse_header: fails when the buffer cannot hold a header *)
gx_proto_parse_header(buf, buflen) ==
    IF buflen < PACKAGE_HEADER_SIZE THEN [ok |-> FALSE]
    ELSE [ok |-> TRUE, len |-> buf[1], cmd0 |-> buf[2], cmd1 |-> buf[3],
          pkg_eop |-> buf[4]]

(* gx_proto_parse_body: the first payload byte is the result code; an ACK  *)
(* also carries the acknowledged command                                   *)
gx_proto_parse_body(cmd0, body) ==
    IF Len(body) < 1 \/ (cmd0 = GX_CMD_ACK /\ Len(body) < 2) THEN [ok |-> FALSE]
    ELSE [ok |-> TRUE, response |-> [cmd0 |-> cmd0, result |-> body[1], body |-> body]]

(* the reply buffer as the code reads it: the bytes received, then the     *)
(* bytes of the freshly sized array, which nothing has written (fill)      *)
ReplyByte(reply, fill, i) == IF i <= Len(reply) THEN reply[i] ELSE fill
ReplyBytes(reply, fill, from, n) == [i \in 1 .. n |-> ReplyByte(reply, fill, from + i - 1)]

(* the test that sends the loop of goodixfp_device_cmd_recv round again   *)
(* after a frame has been parsed                                           *)
AckDiscarded_AnyCaller(cmd0, data_reply) == cmd0 = GX_CMD_ACK
AckDiscarded(cmd0, data_reply) == cmd0 = GX_CMD_ACK /\ data_reply

RecvStep_NoChecksum(reply, fill, data_reply) ==
    IF reply = <<>> THEN [r |-> "continue"]
    ELSE LET header == gx_proto_parse_header(reply, Len(reply))
         IN  IF ~header.ok THEN [r |-> "error", error |-> "invalid_value"]
             ELSE LET body == gx_proto_parse_body(header.cmd0,
                                  ReplyBytes(reply, fill, PACKAGE_HEADER_SIZE + 1,
                                             header.len))
                  IN  IF ~body.ok THEN [r |-> "error", error |-> "invalid_value"]
                      ELSE IF AckDiscarded(header.cmd0, data_reply)
                      THEN [r |-> "continue", response |-> body.response]
                      ELSE [r |-> "ok", response |-> body.response]

(* One pass of the loop of goodixfp_device_cmd_recv over the reply read:   *)
(* "continue", "ok" with the response, or "error".                         *)
RecvStep(reply, fill, data_reply) ==
    IF reply = <<>> THEN [r |-> "continue"]
    ELSE LET header == gx_proto_parse_header(reply, Len(reply))
         IN  IF ~header.ok THEN [r |-> "error", error |-> "invalid_value"]
             ELSE LET n == PACKAGE_HEADER_SIZE + header.len
                      crc32_calc == gx_proto_crc32_calc(ReplyBytes(reply, fill, 1, n), n)
                      body == gx_proto_parse_body(header.cmd0,
                                  ReplyBytes(reply, fill, PACKAGE_HEADER_SIZE + 1,
                                             header.len))
                  IN  IF crc32_calc # Uint32FromLE(ReplyBytes(reply, fill, n + 1, 4))
                      THEN [r |-> "error", error |-> "invalid_checksum"]
                      ELSE IF ~body.ok THEN [r |-> "error", error |-> "invalid_value"]
                      ELSE IF AckDiscarded(header.cmd0, data_reply)
                      THEN [r |-> "continue", response |-> body.response]
                      ELSE [r |-> "ok", response |-> body.response]

(* fu_chunk_array_new_from_bytes (fw, 0, 0, packet_sz) *)
RECURSIVE fu_chunk_array_new(_, _)
fu_chunk_array_new(fw, packet_sz) ==
    IF fw = <<>> THEN <<>>
    ELSE <<SubSeq(fw, 1, Min(packet_sz, Len(fw)))>>
         \o fu_chunk_array_new(SubSeq(fw, Min(packet_sz, Len(fw)) + 1, Len(fw)), packet_sz)

(* replies of the device to one bulk read *)
Corrupt(frame) ==
    SubSeq(frame, 1, PACKAGE_HEADER_SIZE)
    \o <<(frame[PACKAGE_HEADER_SIZE + 1] + 1) % 256>>
    \o SubSeq(frame, PACKAGE_HEADER_SIZE + 2, Len(frame))
Truncated(frame) == SubSeq(frame, 1, Len(frame) - 1)
GxReplies ==
    { <<>>,
      BuildFrame(GX_CMD_ACK, 0, 0, <<0, GX_CMD_UPGRADE>>),
      BuildFrame(GX_CMD_UPGRADE, GX_CMD_UPGRADE_DATA, 0, <<0>>),
      BuildFrame(GX_CMD_UPGRADE, GX_CMD_UPGRADE_INIT, 0, <<1>>),
      BuildFrame(GX_CMD_VERSION, GX_CMD1_DEFAULT, 0, <<0, 49, 50>>),
      BuildFrame(GX_CMD_RESET, 3, 0, <<>>),
      BuildFrame(GX_CMD_ACK, 0, 0, <<0>>),
      Corrupt(BuildFrame(GX_CMD_UPGRADE, GX_CMD_UPGRADE_DATA, 0, <<0>>)),
      Corrupt(BuildFrame(GX_CMD_ACK, 0, 0, <<0, GX_CMD_UPGRADE>>)),
      Truncated(BuildFrame(GX_CMD_UPGRADE, GX_CMD_UPGRADE_DATA, 0, <<0>>)),
      <<1, GX_CMD_UPGRADE>> }

(* bytes found in the part of the reply buffer that the read did not fill: *)
(* nothing has written them, so they hold anything, the byte a short reply *)
(* lacks (23, the last checksum byte of the data frame) included           *)
GxFill == {0, 23, 255}

(* outcome of one pass of the receive loop, per reply, fill and caller *)
RecvOutcomes ==
    {[reply |-> x[1], fill |-> x[2], data_reply |-> x[3],
      step |-> RecvStep(x[1], x[2], x[3])] : x \in GxReplies \X GxFill \X BOOLEAN}

GxImages == {[i \in 1 .. n |-> 16 + i] : n \in 0 .. GxMaxImage}

GxNoRequest == [cmd0 |-> 0, cmd1 |-> 0, pkg_eop |-> 0, request |-> <<>>,
                data_reply |-> FALSE]
GxNoResponse == [cmd0 |-> 0, result |-> 0, body |-> <<>>]

GxInit0 ==
    [pc |-> "idle", op |-> "none", ret |-> "none", stage |-> "opened",
     req |-> GxNoRequest, i |-> 0, chunks |-> <<>>,
     rx |-> <<>>, older |-> 0, tx |-> <<>>, response |-> GxNoResponse,
     error |-> "unset", error_local |-> "unset",
     version |-> "NULL", wait_for_replug |-> FALSE, progress |-> <<0, 0>>,
     pkg_eop |-> 128, wait_data_reply |-> FALSE]

(* fu_goodixfp_device_cmd_xfer: start the send leg of an exchange *)
GxXfer(g, cmd0, cmd1, pkg_eop, request, data_reply) ==
    [g EXCEPT !.pc = "send_zlp",
              !.req = [cmd0 |-> cmd0, cmd1 |-> cmd1, pkg_eop |-> pkg_eop,
                       request |-> request, data_reply |-> data_reply],
              !.rx = <<>>, !.older = 0]

GxCallSetup ==
    /\ gx.pc = "idle" /\ gx.stage = "opened"
    /\ gx' = GxXfer([gx EXCEPT !.op = "setup", !.ret = "none", !.tx = <<>>,
                               !.error = "unset", !.error_local = "unset"],
                    GX_CMD_VERSION, GX_CMD1_DEFAULT, 0, <<0>>, TRUE)
    /\ UNCHANGED lspconVars

GxCallWriteFirmware ==
    /\ gx.pc = "idle" /\ gx.stage = "setup"
    /\ \E fw \in GxImages, blob \in BOOLEAN :
          LET g == [gx EXCEPT !.op = "write_firmware", !.ret = "none", !.tx = <<>>,
                              !.error = "unset", !.error_local = "unset",
                              !.response = GxNoResponse,
                              !.pkg_eop = 128, !.wait_data_reply = FALSE, !.i = 0]
          IN  IF ~blob
              THEN gx' = [g EXCEPT !.pc = "idle", !.ret = "FALSE",
                                   !.error = "no_image", !.stage = "failed"]
              ELSE gx' = GxXfer([g EXCEPT !.chunks =
                                      fu_chunk_array_new(fw, GxBlockSize)],
                                GX_CMD_UPGRADE, GX_CMD_UPGRADE_INIT, 0, <<>>, TRUE)
    /\ UNCHANGED lspconVars

GxCallAttach ==
    /\ gx.pc = "idle" /\ gx.stage = "written"
    /\ gx' = GxXfer([gx EXCEPT !.op = "attach", !.ret = "none", !.tx = <<>>,
                               !.error = "unset", !.error_local = "unset",
                               !.response = GxNoResponse],
                    GX_CMD_RESET, 3, 0, <<>>, FALSE)
    /\ UNCHANGED lspconVars

(* the error variable the exchange of the running operation reports into  *)
GxSetXferError(g, e) ==
    IF g.op = "attach" THEN [g EXCEPT !.error = e, !.pc = "xfer_failed"]
    ELSE [g EXCEPT !.error_local = e, !.pc = "xfer_failed"]

(* the result of the transfer of the zero-length packet is not tested *)
GxSendZlp_FailureIgnored ==
    /\ gx.pc = "send_zlp"
    /\ \E ok \in BOOLEAN :
          IF ok
          THEN gx' = [gx EXCEPT !.pc = "send_frame", !.tx = Append(@, <<>>)]
          ELSE gx' = [gx EXCEPT !.pc = "recv"]
    /\ UNCHANGED lspconVars

(* goodixfp_device_cmd_send: the zero-length packet *)
GxSendZlp ==
    /\ gx.pc = "send_zlp"
    /\ \E ok \in BOOLEAN :
          IF ok
          THEN gx' = [gx EXCEPT !.pc = "send_frame", !.tx = Append(@, <<>>)]
          ELSE gx' = GxSetXferError(gx, "failed_to_request")
    /\ UNCHANGED lspconVars

(* a short transfer of the frame is taken for a complete one *)
GxSendFrame_ShortAccepted ==
    /\ gx.pc = "send_frame"
    /\ LET buf == BuildFrame(gx.req.cmd0, gx.req.cmd1, gx.req.pkg_eop, gx.req.request)
       IN  \E ok \in BOOLEAN, actual_len \in {Len(buf), Len(buf) - 1} :
              IF ~ok
              THEN gx' = GxSetXferError(gx, "failed_to_request")
              ELSE gx' = [gx EXCEPT !.pc = "recv",
                                    !.tx = Append(@, SubSeq(buf, 1, actual_len))]
    /\ UNCHANGED lspconVars

(* goodixfp_device_cmd_send: the frame; the transfer fails, or transfers   *)
(* actual_len bytes                                                        *)
GxSendFrame ==
    /\ gx.pc = "send_frame"
    /\ LET buf == BuildFrame(gx.req.cmd0, gx.req.cmd1, gx.req.pkg_eop, gx.req.request)
       IN  \E ok \in BOOLEAN, actual_len \in {Len(buf), Len(buf) - 1} :
              IF ~ok
              THEN gx' = GxSetXferError(gx, "failed_to_request")
              ELSE IF actual_len # Len(buf)
              THEN gx' = GxSetXferError([gx EXCEPT !.tx = Append(@, SubSeq(buf, 1, actual_len))],
                                        "invalid_length")
              ELSE gx' = [gx EXCEPT !.pc = "recv", !.tx = Append(@, buf)]
    /\ UNCHANGED lspconVars

(* the replies read by the running goodixfp_device_cmd_recv: the last     *)
(* GxMaxReads of them are kept, older ones are counted modulo 2           *)
GxRead(g, reply) ==
    IF Len(g.rx) < GxMaxReads
    THEN [g EXCEPT !.rx = Append(@, reply)]
    ELSE [g EXCEPT !.rx = Append(Tail(@), reply), !.older = 1 - @]

(* a failed read is tried again *)
GxRecvFail_Retried ==
    /\ gx.pc = "recv"
    /\ gx' = [gx EXCEPT !.older = 1 - @]
    /\ UNCHANGED lspconVars

(* goodixfp_device_cmd_recv: one pass of the loop; the read fails         *)
GxRecvFail ==
    /\ gx.pc = "recv"
    /\ gx' = GxSetXferError(gx, "failed_to_reply")
    /\ UNCHANGED lspconVars

(* goodixfp_device_cmd_recv: one pass of the loop over a reply read       *)
GxRecv ==
    /\ gx.pc = "recv"
    /\ \E o \in RecvOutcomes :
          /\ o.data_reply = gx.req.data_reply
          /\ LET s == o.step
                 g == GxRead(gx, o.reply)
             IN  IF s.r = "error" THEN gx' = GxSetXferError(g, s.error)
                 ELSE IF s.r = "ok"
                 THEN gx' = [g EXCEPT !.pc = "xfer_ok", !.response = s.response]
                 ELSE IF o.reply = <<>> THEN gx' = g
                 ELSE gx' = [g EXCEPT !.response = s.response]
    /\ UNCHANGED lspconVars

(* setup fails when the version could not be read *)
GxSetupDone_VersionRequired ==
    /\ gx.op = "setup"
    /\ gx.pc \in {"xfer_ok", "xfer_failed"}
    /\ IF gx.pc = "xfer_ok"
       THEN gx' = [gx EXCEPT !.pc = "idle", !.ret = "TRUE", !.stage = "setup",
                             !.version = "fwversion"]
       ELSE gx' = [gx EXCEPT !.pc = "idle", !.ret = "FALSE", !.stage = "failed",
                             !.error = gx.error_local]
    /\ UNCHANGED lspconVars

(* fu_goodixfp_device_setup after fu_goodixfp_device_get_version *)
GxSetupDone ==
    /\ gx.op = "setup"
    /\ gx.pc \in {"xfer_ok", "xfer_failed"}
    /\ gx' = [gx EXCEPT !.pc = "idle", !.ret = "TRUE", !.stage = "setup",
                        !.version = IF gx.pc = "xfer_ok" THEN "fwversion" ELSE @]
    /\ UNCHANGED lspconVars

(* fu_goodixfp_device_write_firmware after fu_goodixfp_device_update_init: *)
(* FALSE without an error when the result is not 0; reading                *)
(* error_local->message then dereferences NULL                             *)
GxUpdateInitDone ==
    /\ gx.op = "write_firmware" /\ gx.i = 0
    /\ gx.pc \in {"xfer_ok", "xfer_failed"}
    /\ IF gx.pc = "xfer_failed"
       THEN gx' = [gx EXCEPT !.pc = "idle", !.ret = "FALSE", !.error = "failed_to_init",
                             !.stage = "failed"]
       ELSE IF gx.response.result # 0
       THEN gx' = [gx EXCEPT !.pc = "crashed", !.ret = "CRASH", !.stage = "failed"]
       ELSE IF gx.chunks = <<>>
       THEN gx' = [gx EXCEPT !.pc = "idle", !.ret = "TRUE", !.stage = "written"]
       ELSE gx' = [gx EXCEPT !.pc = "block", !.i = 1]
    /\ UNCHANGED lspconVars

(* no block is taken for the last one *)
GxWriteBlock_NoLastBlock ==
    /\ gx.op = "write_firmware" /\ gx.pc = "block"
    /\ gx' = GxXfer(gx, GX_CMD_UPGRADE, GX_CMD_UPGRADE_DATA, gx.pkg_eop,
                    gx.chunks[gx.i], gx.wait_data_reply)
    /\ UNCHANGED lspconVars

(* the body of the loop over the chunks, up to the exchange *)
GxWriteBlock ==
    /\ gx.op = "write_firmware" /\ gx.pc = "block"
    /\ LET last == gx.i = Len(gx.chunks)
           wait_data_reply == IF last THEN TRUE ELSE gx.wait_data_reply
           pkg_eop == IF last THEN 0 ELSE gx.pkg_eop
       IN  gx' = GxXfer([gx EXCEPT !.wait_data_reply = wait_data_reply,
                                   !.pkg_eop = pkg_eop],
                        GX_CMD_UPGRADE, GX_CMD_UPGRADE_DATA, pkg_eop,
                        gx.chunks[gx.i], wait_data_reply)
    /\ UNCHANGED lspconVars

(* the body of the loop over the chunks, after the exchange *)
GxBlockDone ==
    /\ gx.op = "write_firmware" /\ gx.i >= 1
    /\ gx.pc \in {"xfer_ok", "xfer_failed"}
    /\ IF gx.pc = "xfer_failed"
       THEN gx' = [gx EXCEPT !.pc = "idle", !.ret = "FALSE", !.error = "failed_to_write",
                             !.stage = "failed"]
       ELSE LET g == [gx EXCEPT !.progress = <<gx.i - 1, Len(gx.chunks)>>]
            IN  IF gx.i = Len(gx.chunks)
                THEN gx' = [g EXCEPT !.pc = "idle", !.ret = "TRUE", !.stage = "written"]
                ELSE gx' = [g EXCEPT !.pc = "block", !.i = gx.i + 1]
    /\ UNCHANGED lspconVars

(* the result code of the response is not looked at *)
GxAttachDone_ResultIgnored ==
    /\ gx.op = "attach"
    /\ gx.pc \in {"xfer_ok", "xfer_failed"}
    /\ IF gx.pc = "xfer_failed"
       THEN gx' = [gx EXCEPT !.pc = "idle", !.ret = "FALSE", !.stage = "failed"]
       ELSE gx' = [gx EXCEPT !.pc = "idle", !.ret = "TRUE", !.stage = "attached",
                             !.wait_for_replug = TRUE]
    /\ UNCHANGED lspconVars

(* fu_goodixfp_device_attach after the exchange *)
GxAttachDone ==
    /\ gx.op = "attach"
    /\ gx.pc \in {"xfer_ok", "xfer_failed"}
    /\ IF gx.pc = "xfer_failed" \/ gx.response.result # 0
       THEN gx' = [gx EXCEPT !.pc = "idle", !.ret = "FALSE", !.stage = "failed"]
       ELSE gx' = [gx EXCEPT !.pc = "idle", !.ret = "TRUE", !.stage = "attached",
                             !.wait_for_replug = TRUE]
    /\ UNCHANGED lspconVars

GxNext ==
    \/ GxCallSetup \/ GxCallWriteFirmware \/ GxCallAttach
    \/ GxSendZlp \/ GxSendFrame \/ GxRecvFail \/ GxRecv
    \/ GxSetupDone \/ GxUpdateInitDone \/ GxWriteBlock \/ GxBlockDone
    \/ GxAttachDone

(* ============================== inputs ================================= *)
ImageSeeds == {3, 85}

Image(seed, len) == [i \in 1 .. len |-> (seed * i) % 256]

OldImage(b) == [i \in 1 .. FLASH_BLOCK_SIZE |-> (40 * b + i) % 256]

(* firmware handed to write_firmware: a blob of the right size, blobs of   *)
(* wrong sizes, and a firmware object that yields no bytes                 *)
Firmwares ==
    {[blob |-> TRUE, data |-> Image(s, FLASH_BLOCK_SIZE)] : s \in ImageSeeds}
    \cup {[blob |-> TRUE, data |-> Image(3, n)] :
             n \in {0, FLASH_BLOCK_SIZE - 1, FLASH_BLOCK_SIZE + 1}}
    \cup {[blob |-> FALSE, data |-> <<>>]}

(* values the active-partition register can report *)
PartitionValues == 0 .. 4

(* Flash of a device running from partition p: the flag record names p    *)
(* when p is a user partition (an erased flag block makes the boot        *)
(* partition run); blocks 1..3 hold complete firmware.                     *)
InitFlash(p) ==
    [a \in FlashAddrs |->
        IF BlockOf(a) = 0
        THEN IF p \in {1, 2} /\ a < 4 THEN ValidFlag(p)[a + 1] ELSE ERASED
        ELSE OldImage(BlockOf(a))[(a % FLASH_BLOCK_SIZE) + 1]]

NoLocals ==
    [guard |-> FALSE, device_name |-> "NULL", base_address |-> 0, len |-> 0,
     value |-> 0, status_register |-> 0, data |-> 0,
     page_data |-> <<>>, readback_buf |-> <<>>, firmware |-> <<>>]

(* ============================ initial state ============================ *)
GxIdle == [pc |-> "off"]

Init ==
    /\ \E p \in PartitionValues :
          /\ dev = [addr |-> 0, ptr |-> 0, hi |-> 0, lo |-> 0, fifo |-> <<>>,
                    len |-> 0, ctl |-> 0, busy |-> FALSE, last |-> <<>>, se |-> 0,
                    wip |-> FALSE, wel |-> FALSE, srwe |-> FALSE, sr |-> 140,
                    wp |-> 0, unlock |-> 0, mpu |-> 0, clt2spi |-> 0,
                    partition |-> p]
          /\ flash = InitFlash(p)
    /\ \E n \in {"NULL", "DPDDC-A"} :
          self = [active_partition |-> 0, aux_device_name |-> n, version |-> "NULL",
                  status |-> "idle", progress |-> <<0, 0>>, instance_ids |-> {}]
    /\ drv = [call |-> "none", pc |-> "idle", ret |-> "none", failed |-> FALSE,
              error |-> "none", errval |-> -1, stage |-> "constructed",
              pre |-> [dev |-> <<>>, flash |-> <<>>, active_partition |-> 0]]
    /\ loc = NoLocals
    /\ todo = <<>>
    /\ busLog = <<>>
    \* ioctl(I2C_SLAVE) only records the address in the adapter and fails for
    \* an address the adapter refuses (EINVAL, EBUSY): whether an address can
    \* be selected is a property of the bus and does not change between calls
    /\ \E sel \in SUBSET {I2C_ADDR_PAGE2, I2C_ADDR_PAGE5, I2C_ADDR_PAGE7} :
          env = [selectable |-> sel, badCells |-> MaxBadCells]
    /\ gx = GxIdle

(* ============================== actions ================================ *)
Running == drv.pc = "running" /\ todo # <<>>
I == Head(todo)

(* mutant: an early return skips the cleanup of the guard *)
Unwind_NoCleanup == <<>>

(* g_autoptr cleanup that runs when the function returns early *)
Unwind == IF loc.guard THEN i2c_address_guard_dispose ELSE <<>>

(* g_set_error keeps an error that is already set *)
WithError(e, v) ==
    IF drv.error = "none"
    THEN [drv EXCEPT !.failed = TRUE, !.error = e, !.errval = v]
    ELSE [drv EXCEPT !.failed = TRUE]

(* the called function returned FALSE with the error e *)
ReturnFalse(e, v) ==
    /\ drv' = WithError(e, v)
    /\ todo' = Unwind

Call(name, steps) ==
    /\ drv.pc = "idle"
    /\ drv' = [drv EXCEPT !.call = name, !.pc = "running", !.ret = "none",
                          !.failed = FALSE, !.error = "none", !.errval = -1,
                          !.pre = [dev |-> dev, flash |-> flash,
                                         active_partition |-> self.active_partition]]
    /\ todo' = steps
    /\ loc' = NoLocals
    /\ busLog' = <<>>
    /\ UNCHANGED <<dev, flash, self, env, gx>>

(* names fu_device_get_name can return *)
DeviceNames == {"PS175", "PS176", "NULL"}

CallProbe ==
    /\ drv.stage = "constructed"
    /\ drv.pc = "idle"
    /\ \E device_name \in DeviceNames :
          /\ drv' = [drv EXCEPT !.call = "probe", !.pc = "running",
                                !.ret = "none", !.failed = FALSE,
                                !.error = "none", !.errval = -1,
                                !.pre = [dev |-> dev, flash |-> flash,
                                         active_partition |-> self.active_partition]]
          /\ todo' = fu_parade_lspcon_device_probe
          /\ loc' = [NoLocals EXCEPT !.device_name = device_name]
    /\ busLog' = <<>>
    /\ UNCHANGED <<dev, flash, self, env, gx>>

CallOpen ==
    /\ drv.stage = "constructed"
    /\ Call("open", fu_parade_lspcon_device_open)

CallReload ==
    /\ drv.stage = "opened"
    /\ Call("reload", fu_parade_lspcon_device_reload)

CallDetach ==
    /\ drv.stage = "setup"
    /\ Call("detach", fu_parade_lspcon_device_detach)

CallDumpFirmware ==
    /\ drv.stage = "setup"
    /\ Call("dump_firmware", fu_parade_lspcon_device_dump_firmware(self.active_partition))

CallWriteFirmware ==
    /\ drv.stage = "detached"
    /\ drv.pc = "idle"
    /\ \E firmware \in Firmwares :
          /\ drv' = [drv EXCEPT !.call = "write_firmware", !.pc = "running",
                                !.ret = "none", !.failed = FALSE,
                                !.error = "none", !.errval = -1,
                                !.pre = [dev |-> dev, flash |-> flash,
                                         active_partition |-> self.active_partition]]
          /\ todo' = fu_parade_lspcon_device_write_firmware(self.active_partition,
                                                            firmware)
          /\ loc' = [NoLocals EXCEPT !.firmware = firmware.data]
    /\ busLog' = <<>>
    /\ UNCHANGED <<dev, flash, self, env, gx>>

CallAttach ==
    /\ drv.stage = "written"
    /\ Call("attach", fu_parade_lspcon_device_attach)

NextStage(call) ==
    CASE call = "probe" -> "constructed"
      [] call = "open" -> "opened"
      [] call = "reload" -> "setup"
      [] call = "detach" -> "detached"
      [] call = "write_firmware" -> "written"
      [] call = "attach" -> "attached"
      [] OTHER -> "verified"

(* the running call returns to the daemon *)
Return ==
    /\ drv.pc = "running"
    /\ todo = <<>>
    /\ drv' = [drv EXCEPT !.pc = "idle",
                          !.ret = IF drv.failed THEN "FALSE" ELSE "TRUE",
                          !.stage = IF drv.failed THEN "failed"
                                    ELSE NextStage(drv.call)]
    /\ UNCHANGED <<dev, flash, self, loc, todo, busLog, env, gx>>

(* cells of a window write that can fail to program *)
BadChoices(data) ==
    IF dev.addr = I2C_ADDR_PAGE7 /\ Len(data) >= 2 /\ env.badCells > 0
    THEN 0 .. (Len(data) - 1) ELSE {0}

I2cWrite ==
    /\ Running
    /\ I.op = "i2c_write"
    /\ \E bad \in BadChoices(I.data) :
          LET r == DevI2cWrite(dev, flash, I.data, bad)
          IN  /\ dev' = r.dev
              /\ flash' = r.flash
              /\ env' = IF bad = 0 THEN env
                        ELSE [env EXCEPT !.badCells = env.badCells - 1]
    /\ busLog' = LogAppend(busLog, WriteEvents(dev, I.data))
    /\ todo' = Tail(todo)
    /\ UNCHANGED <<self, drv, loc, gx>>

I2cWriteFail ==
    /\ Running
    /\ I.op = "i2c_write"
    /\ ReturnFalse("io", -1)
    /\ UNCHANGED <<dev, flash, self, loc, busLog, env, gx>>

I2cRead ==
    /\ Running
    /\ I.op = "i2c_read"
    /\ \E fin \in BOOLEAN :
          LET r == DevI2cRead(dev, flash, I.n, fin)
          IN  /\ dev' = r.dev
              /\ loc' = IF I.dst = "page_data"
                        THEN [loc EXCEPT !.page_data = r.data]
                        ELSE [loc EXCEPT ![I.dst] = r.data[1]]
              /\ busLog' = LogAppend(busLog, ReadEvents(dev, r.data))
    /\ todo' = Tail(todo)
    /\ UNCHANGED <<flash, self, drv, env, gx>>

I2cReadFail ==
    /\ Running
    /\ I.op = "i2c_read"
    /\ ReturnFalse("io", -1)
    /\ UNCHANGED <<dev, flash, self, loc, busLog, env, gx>>

(* fu_device_add_instance_id, fu_device_add_instance_id_full *)
AddInstanceIds ==
    /\ Running
    /\ I.op = "add_instance_ids"
    /\ self' = [self EXCEPT !.instance_ids = @ \cup {"NAME", "NAME&FAMILY"}]
    /\ todo' = Tail(todo)
    /\ UNCHANGED <<dev, flash, drv, loc, busLog, env, gx>>

(* g_strcmp0 (device_name, "PS175") != 0 *)
CheckName ==
    /\ Running
    /\ I.op = "check_name"
    /\ IF loc.device_name # "PS175"
       THEN ReturnFalse("not_supported", -1)
       ELSE todo' = Tail(todo) /\ drv' = drv
    /\ UNCHANGED <<dev, flash, self, loc, busLog, env, gx>>

(* FuI2cDevice->probe *)
ParentProbe ==
    /\ Running
    /\ I.op = "parent_probe"
    /\ todo' = Tail(todo)
    /\ UNCHANGED <<dev, flash, self, drv, loc, busLog, env, gx>>

ParentProbeFail ==
    /\ Running
    /\ I.op = "parent_probe"
    /\ ReturnFalse("probe", -1)
    /\ UNCHANGED <<dev, flash, self, loc, busLog, env, gx>>

(* FuI2cDevice->open *)
ParentOpen ==
    /\ Running
    /\ I.op = "parent_open"
    /\ todo' = Tail(todo)
    /\ UNCHANGED <<dev, flash, self, drv, loc, busLog, env, gx>>

ParentOpenFail ==
    /\ Running
    /\ I.op = "parent_open"
    /\ ReturnFalse("open", -1)
    /\ UNCHANGED <<dev, flash, self, loc, busLog, env, gx>>

(* ensure_i2c_address as called by open: the ioctl binds the address, or   *)
(* fails and leaves the selection as it was                                *)
EnsureI2cAddress ==
    /\ Running
    /\ I.op = "ioctl"
    /\ IF I.addr \in env.selectable
       THEN /\ dev' = [dev EXCEPT !.addr = I.addr]
            /\ busLog' = busLog \o <<[k |-> "sel", addr |-> I.addr]>>
            /\ todo' = Tail(todo)
            /\ drv' = drv
       ELSE /\ ReturnFalse("ioctl", -1)
            /\ UNCHANGED <<dev, busLog>>
    /\ UNCHANGED <<flash, self, loc, env, gx>>

(* i2c_address_guard_new: returns NULL, with the error set, when the       *)
(* address cannot be selected                                              *)
GuardNew ==
    /\ Running
    /\ I.op = "guard_new"
    /\ IF I.addr \in env.selectable
       THEN /\ dev' = [dev EXCEPT !.addr = I.addr]
            /\ busLog' = busLog \o <<[k |-> "sel", addr |-> I.addr]>>
            /\ loc' = [loc EXCEPT !.guard = TRUE]
            /\ drv' = drv
       ELSE /\ loc' = [loc EXCEPT !.guard = FALSE]
            /\ drv' = [drv EXCEPT !.error = IF drv.error = "none" THEN "ioctl"
                                            ELSE drv.error]
            /\ UNCHANGED <<dev, busLog>>
    /\ todo' = Tail(todo)
    /\ UNCHANGED <<flash, self, env, gx>>

(* if (guard == NULL) return FALSE *)
CheckGuard ==
    /\ Running
    /\ I.op = "check_guard"
    /\ IF loc.guard
       THEN todo' = Tail(todo) /\ drv' = drv
       ELSE ReturnFalse("ioctl", -1)
    /\ UNCHANGED <<dev, flash, self, loc, busLog, env, gx>>

(* i2c_address_guard_dispose, run by the cleanup of a non-NULL guard: the  *)
(* result of ensure_i2c_address is ignored                                 *)
GuardDispose ==
    /\ Running
    /\ I.op = "guard_dispose"
    /\ IF loc.guard /\ I2C_ADDR_PAGE2 \in env.selectable
       THEN /\ dev' = [dev EXCEPT !.addr = I2C_ADDR_PAGE2]
            /\ busLog' = busLog \o <<[k |-> "sel", addr |-> I2C_ADDR_PAGE2]>>
       ELSE UNCHANGED <<dev, busLog>>
    /\ loc' = [loc EXCEPT !.guard = FALSE]
    /\ todo' = Tail(todo)
    /\ UNCHANGED <<flash, self, drv, env, gx>>

(* the sense of the comparison is inverted *)
PollCheck_Inverted ==
    /\ Running
    /\ I.op = "poll_check"
    /\ \/ /\ BitAnd(loc.value, I.mask) # I.expected
          /\ todo' = Tail(todo)
       \/ /\ BitAnd(loc.value, I.mask) = I.expected
          /\ I.n < MaxPolls
          /\ todo' = PollIteration(I.reg, I.mask, I.expected, I.n + 1) \o Tail(todo)
    /\ UNCHANGED <<dev, flash, self, drv, loc, busLog, env, gx>>

(* lspcon_poll_register: the value matches, or the timer has not elapsed   *)
(* and the loop reads again                                                *)
PollCheck ==
    /\ Running
    /\ I.op = "poll_check"
    /\ \/ /\ BitAnd(loc.value, I.mask) = I.expected
          /\ todo' = Tail(todo)
       \/ /\ BitAnd(loc.value, I.mask) # I.expected
          /\ I.n < MaxPolls
          /\ todo' = PollIteration(I.reg, I.mask, I.expected, I.n + 1) \o Tail(todo)
    /\ UNCHANGED <<dev, flash, self, drv, loc, busLog, env, gx>>

(* lspcon_poll_register: more than 10 seconds have elapsed *)
PollTimeout ==
    /\ Running
    /\ I.op = "poll_check"
    /\ BitAnd(loc.value, I.mask) # I.expected
    /\ ReturnFalse("timeout", loc.value)
    /\ UNCHANGED <<dev, flash, self, loc, busLog, env, gx>>

(* flash_wait_ready: BUSY is clear, or the loop sleeps and reads again *)
ReadyCheck ==
    /\ Running
    /\ I.op = "ready_check"
    /\ \/ /\ BitAnd(loc.status_register, 1) = 0
          /\ todo' = Tail(todo)
       \/ /\ BitAnd(loc.status_register, 1) # 0
          /\ I.n < MaxPolls
          /\ todo' = WaitIteration(I.n + 1) \o Tail(todo)
    /\ UNCHANGED <<dev, flash, self, drv, loc, busLog, env, gx>>

(* flash_wait_ready: more than 10 seconds have elapsed; the error carries  *)
(* no value                                                                *)
ReadyTimeout ==
    /\ Running
    /\ I.op = "ready_check"
    /\ BitAnd(loc.status_register, 1) # 0
    /\ ReturnFalse("timeout", -1)
    /\ UNCHANGED <<dev, flash, self, loc, busLog, env, gx>>

(* readback_buf = g_malloc (size): the contents are indeterminate, -1 *)
Malloc ==
    /\ Running
    /\ I.op = "malloc"
    /\ loc' = [loc EXCEPT !.readback_buf = [i \in 1 .. I.size |-> -1]]
    /\ todo' = Tail(todo)
    /\ UNCHANGED <<dev, flash, self, drv, busLog, env, gx>>

(* memcpy (data, page_data + page_data_start, page_data_take) *)
Memcpy ==
    /\ Running
    /\ I.op = "memcpy"
    /\ loc' = [loc EXCEPT !.readback_buf =
                  [i \in 1 .. Len(loc.readback_buf) |->
                      IF i > I.off /\ i <= I.off + I.take
                      THEN loc.page_data[I.start + (i - I.off)]
                      ELSE loc.readback_buf[i]]]
    /\ todo' = Tail(todo)
    /\ UNCHANGED <<dev, flash, self, drv, busLog, env, gx>>

(* mutant: the result of the comparison is ignored *)
Memcmp_Ignored ==
    /\ Running
    /\ I.op = "memcmp"
    /\ todo' = Tail(todo)
    /\ UNCHANGED <<dev, flash, self, drv, loc, busLog, env, gx>>

(* mutant: only the first byte is compared *)
Memcmp_FirstByte ==
    /\ Running
    /\ I.op = "memcmp"
    /\ IF SubSeq(loc.readback_buf, 1, 1) = SubSeq(I.expect, 1, 1)
       THEN todo' = Tail(todo) /\ drv' = drv
       ELSE ReturnFalse(I.err, -1)
    /\ UNCHANGED <<dev, flash, self, loc, busLog, env, gx>>

(* memcmp (expect, readback_buf, n) != 0 fails with FWUPD_ERROR_WRITE *)
Memcmp ==
    /\ Running
    /\ I.op = "memcmp"
    /\ IF SubSeq(loc.readback_buf, 1, I.n) = I.expect
       THEN todo' = Tail(todo) /\ drv' = drv
       ELSE ReturnFalse(I.err, -1)
    /\ UNCHANGED <<dev, flash, self, loc, busLog, env, gx>>

SetStatus ==
    /\ Running
    /\ I.op = "set_status"
    /\ self' = [self EXCEPT !.status = I.status]
    /\ todo' = Tail(todo)
    /\ UNCHANGED <<dev, flash, drv, loc, busLog, env, gx>>

(* fu_device_set_progress_full (device, cur, total) *)
Progress ==
    /\ Running
    /\ I.op = "progress"
    /\ self' = [self EXCEPT !.progress = <<I.cur, I.total>>]
    /\ todo' = Tail(todo)
    /\ UNCHANGED <<dev, flash, drv, loc, busLog, env, gx>>

(* g_set_error and return FALSE *)
Fail ==
    /\ Running
    /\ I.op = "fail"
    /\ ReturnFalse(I.err, -1)
    /\ UNCHANGED <<dev, flash, self, loc, busLog, env, gx>>

(* g_return_val_if_fail: FALSE is returned and no error is set *)
ReturnValIfFail ==
    /\ Running
    /\ I.op = "return_false"
    /\ drv' = [drv EXCEPT !.failed = TRUE]
    /\ todo' = Unwind
    /\ UNCHANGED <<dev, flash, self, loc, busLog, env, gx>>

(* a function of the driver returns TRUE to its caller *)
FunctionReturn ==
    /\ Running
    /\ I.op = "return"
    /\ todo' = Tail(todo)
    /\ UNCHANGED <<dev, flash, self, drv, loc, busLog, env, gx>>

(* *partition = data, where partition is &self->active_partition *)
StorePartition ==
    /\ Running
    /\ I.op = "store_partition"
    /\ self' = [self EXCEPT !.active_partition = loc.data]
    /\ todo' = Tail(todo)
    /\ UNCHANGED <<dev, flash, drv, loc, busLog, env, gx>>

(* partition 0 is taken for a partition *)
CheckPartition_ZeroAccepted ==
    /\ Running
    /\ I.op = "check_partition"
    /\ IF self.active_partition > 3
       THEN ReturnFalse("not_supported", -1)
       ELSE todo' = Tail(todo) /\ drv' = drv
    /\ UNCHANGED <<dev, flash, self, loc, busLog, env, gx>>

CheckPartition ==
    /\ Running
    /\ I.op = "check_partition"
    /\ IF self.active_partition < 1 \/ self.active_partition > 3
       THEN ReturnFalse("not_supported", -1)
       ELSE todo' = Tail(todo) /\ drv' = drv
    /\ UNCHANGED <<dev, flash, self, loc, busLog, env, gx>>

CheckAuxName ==
    /\ Running
    /\ I.op = "check_aux_name"
    /\ IF self.aux_device_name = "NULL"
       THEN ReturnFalse("not_supported", -1)
       ELSE todo' = Tail(todo) /\ drv' = drv
    /\ UNCHANGED <<dev, flash, self, loc, busLog, env, gx>>

(* g_udev_enumerator_execute finds n aux devices of the configured name *)
AuxEnumerate ==
    /\ Running
    /\ I.op = "aux_enumerate"
    /\ \E n \in 0 .. 2 :
          IF n = 1
          THEN todo' = Tail(todo) /\ drv' = drv
          ELSE ReturnFalse("not_supported", -1)
    /\ UNCHANGED <<dev, flash, self, loc, busLog, env, gx>>

(* set_physical_id, fu_device_locker_new and the two DPCD reads *)
AuxIo ==
    /\ Running
    /\ I.op = "aux_io"
    /\ \E ok \in BOOLEAN :
          IF ok
          THEN todo' = Tail(todo) /\ drv' = drv
          ELSE ReturnFalse("aux_io", -1)
    /\ UNCHANGED <<dev, flash, self, loc, busLog, env, gx>>

AuxOui ==
    /\ Running
    /\ I.op = "aux_oui"
    /\ \E oui \in {7416, 0} :
          IF oui # 7416
          THEN ReturnFalse("not_supported", -1)
          ELSE todo' = Tail(todo) /\ drv' = drv
    /\ UNCHANGED <<dev, flash, self, loc, busLog, env, gx>>

SetVersion ==
    /\ Running
    /\ I.op = "set_version"
    /\ self' = [self EXCEPT !.version = "major.minor"]
    /\ todo' = Tail(todo)
    /\ UNCHANGED <<dev, flash, drv, loc, busLog, env, gx>>

LspconNext ==
    \/ CallProbe \/ AddInstanceIds \/ CheckName \/ ParentProbe \/ ParentProbeFail
    \/ CallOpen \/ CallReload \/ CallDetach \/ CallDumpFirmware
    \/ CallWriteFirmware \/ CallAttach \/ Return
    \/ I2cWrite \/ I2cWriteFail \/ I2cRead \/ I2cReadFail
    \/ ParentOpen \/ ParentOpenFail \/ EnsureI2cAddress
    \/ GuardNew \/ CheckGuard \/ GuardDispose
    \/ PollCheck \/ PollTimeout \/ ReadyCheck \/ ReadyTimeout
    \/ Malloc \/ Memcpy \/ Memcmp \/ SetStatus \/ Progress
    \/ Fail \/ FunctionReturn
    \/ StorePartition \/ CheckPartition \/ CheckAuxName
    \/ AuxEnumerate \/ AuxIo \/ AuxOui \/ SetVersion

Next == LspconNext

Spec == Init /\ [][Next]_vars

(* the Goodix driver, next to an LSPCON that is not in use *)
GxInit ==
    /\ gx = GxInit0
    /\ dev = <<>> /\ flash = <<>> /\ self = <<>> /\ drv = <<>> /\ loc = <<>>
    /\ todo = <<>> /\ busLog = <<>> /\ env = <<>>

SpecGoodix == GxInit /\ [][GxNext]_vars

(* a running goodixfp_device_cmd_recv keeps running: its next read is     *)
(* made; what the device answers is not constrained                       *)
SpecGoodixFair == SpecGoodix /\ WF_vars(GxRecv \/ GxRecvFail)

(* ----------------------- flash functions, on their own ----------------- *)
(* flash_erase_block, flash_read, flash_write and lspcon_map_page called   *)
(* with arguments of every kind on an opened device.                       *)
MaxReadLen == 6
FlashBases == 0 .. (2 * FLASH_BLOCK_SIZE)
EraseSizes == {0, FLASH_BLOCK_SIZE - 1, FLASH_BLOCK_SIZE, 2 * FLASH_BLOCK_SIZE}
WriteData == {Image(3, n) : n \in {1, WindowSize - 1, WindowSize, WindowSize + 1,
                                   2 * WindowSize}}

FlashInit ==
    /\ dev = [addr |-> I2C_ADDR_PAGE2, ptr |-> 0, hi |-> 0, lo |-> 0, fifo |-> <<>>,
              len |-> 0, ctl |-> 0, busy |-> FALSE, last |-> <<>>, se |-> 0,
              wip |-> FALSE, wel |-> FALSE, srwe |-> FALSE, sr |-> 0,
              wp |-> WR_PROTECT_DISABLE, unlock |-> 0, mpu |-> 0, clt2spi |-> 0,
              partition |-> 1]
    /\ flash = InitFlash(1)
    /\ self = [active_partition |-> 1, aux_device_name |-> "DPDDC-A",
               version |-> "NULL", status |-> "idle", progress |-> <<0, 0>>,
               instance_ids |-> {}]
    /\ drv = [call |-> "none", pc |-> "idle", ret |-> "none", failed |-> FALSE,
              error |-> "none", errval |-> -1, stage |-> "flash",
              pre |-> [dev |-> <<>>, flash |-> <<>>, active_partition |-> 0]]
    /\ loc = NoLocals
    /\ todo = <<>>
    /\ busLog = <<>>
    /\ \E sel \in {{I2C_ADDR_PAGE2, I2C_ADDR_PAGE5, I2C_ADDR_PAGE7},
                    {I2C_ADDR_PAGE2, I2C_ADDR_PAGE5}} :
          env = [selectable |-> sel, badCells |-> 0]
    /\ gx = GxIdle

CallFunction(name, steps, base_address, len, data) ==
    /\ drv.stage = "flash"
    /\ drv.pc = "idle"
    /\ drv' = [drv EXCEPT !.call = name, !.pc = "running", !.ret = "none",
                          !.failed = FALSE, !.error = "none", !.errval = -1,
                          !.pre = [dev |-> dev, flash |-> flash,
                                         active_partition |-> self.active_partition]]
    /\ todo' = steps
    /\ loc' = [NoLocals EXCEPT !.base_address = base_address, !.len = len,
                               !.firmware = data]
    /\ busLog' = <<>>
    /\ UNCHANGED <<dev, flash, self, env, gx>>

CallFlashEraseBlock ==
    \E base_address \in FlashBases, size \in EraseSizes :
        CallFunction("flash_erase_block", flash_erase_block(base_address, size),
                     base_address, size, <<>>)

(* flash_read into a buffer of len bytes of the caller *)
CallFlashRead ==
    \E base_address \in FlashBases, len \in 1 .. MaxReadLen :
        CallFunction("flash_read",
                     <<[op |-> "malloc", size |-> len]>> \o flash_read(base_address, len),
                     base_address, len, <<>>)

CallFlashWrite ==
    \E base_address \in FlashBases, data \in WriteData :
        CallFunction("flash_write", flash_write(base_address, data),
                     base_address, Len(data), data)

CallMapPage ==
    \E address \in FlashAddrs :
        CallFunction("lspcon_map_page", lspcon_map_page(address), address, 0, <<>>)

FlashNext ==
    \/ CallFlashEraseBlock \/ CallFlashRead \/ CallFlashWrite \/ CallMapPage
    \/ Return \/ ReturnValIfFail \/ FunctionReturn
    \/ I2cWrite \/ I2cWriteFail \/ I2cRead \/ I2cReadFail
    \/ GuardNew \/ CheckGuard \/ GuardDispose
    \/ PollCheck \/ PollTimeout \/ ReadyCheck \/ ReadyTimeout
    \/ Malloc \/ Memcpy \/ Progress

SpecFlash == FlashInit /\ [][FlashNext]_vars

(* --------------------------- frames, on their own ---------------------- *)
(* A frame is built as goodixfp_device_cmd_send builds it and handed, as   *)
(* the bytes of one read, to the code of one pass of the loop of           *)
(* goodixfp_device_cmd_recv.                                               *)
FrMaxPayload == 2
FrameBytes == {0, 1, 255}
FramePayloads == UNION {[1 .. n -> FrameBytes] : n \in 0 .. FrMaxPayload}
FrameCmd0 == {GX_CMD_ACK, GX_CMD_VERSION, GX_CMD_RESET, GX_CMD_UPGRADE}
FrameCmd1 == {GX_CMD1_DEFAULT, GX_CMD_UPGRADE_DATA, 3}
FrameEop == {0, 128}

FrameInit ==
    /\ \E cmd0 \in FrameCmd0, cmd1 \in FrameCmd1, pkg_eop \in FrameEop,
          request \in FramePayloads :
          gx = [pc |-> "frame_input", cmd0 |-> cmd0, cmd1 |-> cmd1,
                pkg_eop |-> pkg_eop, request |-> request, buf |-> <<>>,
                header |-> [ok |-> FALSE], crc_ok |-> FALSE, payload |-> <<>>,
                step |-> [r |-> "none"]]
    /\ dev = <<>> /\ flash = <<>> /\ self = <<>> /\ drv = <<>> /\ loc = <<>>
    /\ todo = <<>> /\ busLog = <<>> /\ env = <<>>

(* goodixfp_device_cmd_send: buf *)
FrameBuild ==
    /\ gx.pc = "frame_input"
    /\ gx' = [gx EXCEPT !.pc = "frame_built",
                        !.buf = BuildFrame(gx.cmd0, gx.cmd1, gx.pkg_eop, gx.request)]
    /\ UNCHANGED lspconVars

(* goodixfp_device_cmd_recv: the pass of the loop over a read that         *)
(* returned buf (actual_len = Len(buf))                                    *)
FrameParse ==
    /\ gx.pc = "frame_built"
    /\ \E fill \in GxFill :
          LET header == gx_proto_parse_header(gx.buf, Len(gx.buf))
              n == PACKAGE_HEADER_SIZE + header.len
          IN  gx' = [gx EXCEPT
                        !.pc = "frame_parsed",
                        !.header = header,
                        !.crc_ok = header.ok /\
                            gx_proto_crc32_calc(ReplyBytes(gx.buf, fill, 1, n), n)
                              = Uint32FromLE(ReplyBytes(gx.buf, fill, n + 1, 4)),
                        !.payload = IF header.ok
                                    THEN ReplyBytes(gx.buf, fill,
                                                    PACKAGE_HEADER_SIZE + 1, header.len)
                                    ELSE <<>>,
                        !.step = RecvStep(gx.buf, fill, FALSE)]
    /\ UNCHANGED lspconVars

FrameNext == FrameBuild \/ FrameParse

SpecFrame == FrameInit /\ [][FrameNext]_vars

(* --------------------------- transfer units, on their own -------------- *)
(* An image is cut into the units flash_write writes through the window    *)
(* and into the blocks fu_goodixfp_device_write_firmware sends.            *)
MaxChunkImage == 9
ChunkImages ==
    UNION {{[i \in 1 .. n |-> 16 + i], [i \in 1 .. n |-> 255 - i]} :
             n \in 0 .. MaxChunkImage}
ChunkBases == {k * WindowSize : k \in 0 .. 3}

(* the window writes among the steps of flash_write, in program order:     *)
(* the address mapped by lspcon_map_page and the bytes after the offset    *)
RECURSIVE WindowUnits(_, _)
WindowUnits(steps, j) ==
    IF j > Len(steps) THEN <<>>
    ELSE IF /\ steps[j].op = "i2c_write"
            /\ j >= 4 /\ steps[j - 1].op = "guard_new"
         THEN <<[address |-> (steps[j - 3].data[2] * PagesPerBlock
                              + steps[j - 2].data[2]) * WindowSize
                             + steps[j].data[1],
                 data |-> Tail(steps[j].data)]>>
              \o WindowUnits(steps, j + 1)
         ELSE WindowUnits(steps, j + 1)

ChunkInit ==
    /\ \E image \in ChunkImages, base_address \in ChunkBases :
          gx = [pc |-> "chunk_input", image |-> image, base_address |-> base_address,
                units |-> <<>>, chunks |-> <<>>, i |-> 0, requests |-> <<>>]
    /\ dev = <<>> /\ flash = <<>> /\ self = <<>> /\ drv = <<>> /\ loc = <<>>
    /\ todo = <<>> /\ busLog = <<>> /\ env = <<>>

(* flash_write (self, base_address, image) *)
ChunkFlashWrite ==
    /\ gx.pc = "chunk_input"
    /\ gx' = [gx EXCEPT !.pc = "chunk_written",
                        !.units = WindowUnits(flash_write(gx.base_address, gx.image), 1)]
    /\ UNCHANGED lspconVars

(* fu_goodixfp_device_write_firmware: build packets *)
ChunkArrayNew ==
    /\ gx.pc = "chunk_written"
    /\ gx' = [gx EXCEPT !.pc = "chunk_blocks",
                        !.chunks = fu_chunk_array_new(gx.image, GxBlockSize)]
    /\ UNCHANGED lspconVars

(* fu_goodixfp_device_write_firmware: the request of block i *)
ChunkRequest ==
    /\ gx.pc = "chunk_blocks"
    /\ IF gx.i < Len(gx.chunks)
       THEN gx' = [gx EXCEPT !.requests = Append(@, gx.chunks[gx.i + 1]),
                             !.i = @ + 1]
       ELSE gx' = [gx EXCEPT !.pc = "chunk_done"]
    /\ UNCHANGED lspconVars

ChunkNext == ChunkFlashWrite \/ ChunkArrayNew \/ ChunkRequest

SpecChunks == ChunkInit /\ [][ChunkNext]_vars

(* ============================ properties =============================== *)
InWriteFirmware == drv.call = "write_firmware"
Returned == drv.pc = "idle"
Succeeded == Returned /\ drv.ret = "TRUE"
Failing == drv.pc = "running" /\ drv.failed
target_partition == IF self.active_partition = 1 THEN 2 ELSE 1

IsErase(e) == e.k = "spi" /\ Len(e.cmd) = 4 /\ e.cmd[1] = CMD_BLOCK_ERASE
IsWindowWrite(e) == e.k = "winw"
IsWindowRead(e) == e.k = "winr"
(* an erase command or a window write addressed to flash block b *)
ModifiesBlock(e, b) ==
    \/ IsErase(e) /\ e.cmd[2] = b
    \/ IsWindowWrite(e) /\ BlockOf(e.addr) = b

(* the bytes the device returned for block b, in the order they were read *)
RECURSIVE ReadbackOf(_, _)
ReadbackOf(log, b) ==
    IF log = <<>> THEN <<>>
    ELSE (IF IsWindowRead(Head(log)) /\ BlockOf(Head(log).addr) = b
          THEN Head(log).data ELSE <<>>) \o ReadbackOf(Tail(log), b)

(* the bytes sent as window writes to block b, in the order they were sent *)
RECURSIVE WrittenTo(_, _)
WrittenTo(log, b) ==
    IF log = <<>> THEN <<>>
    ELSE (IF IsWindowWrite(Head(log)) /\ BlockOf(Head(log).addr) = b
          THEN Head(log).data ELSE <<>>) \o WrittenTo(Tail(log), b)

Indexes(P(_)) == {i \in 1 .. Len(busLog) : P(busLog[i])}
FlagRecord(f) == <<f[0], f[1], f[2], f[3]>>

(* C1: in write_firmware the flag block is erased or written only after    *)
(* the whole target partition was read back equal to the image; when the   *)
(* readback differs or fails, write_firmware fails and the flag block has  *)
(* seen no erase command and no window write.                              *)
C1_FlagOnlyAfterVerify ==
    InWriteFirmware =>
       /\ \A i \in 1 .. Len(busLog) :
             ModifiesBlock(busLog[i], 0) =>
                ReadbackOf(SubSeq(busLog, 1, i - 1), target_partition) = loc.firmware
       /\ (Returned /\ ReadbackOf(busLog, target_partition) # loc.firmware) =>
             /\ drv.ret = "FALSE"
             /\ \A i \in 1 .. Len(busLog) : ~ModifiesBlock(busLog[i], 0)

(* a cell failed to program, the readback differed and the call failed *)
C1_Witness ==
    /\ InWriteFirmware /\ Returned /\ drv.error = "verify_image"
    /\ Len(ReadbackOf(busLog, target_partition)) = FLASH_BLOCK_SIZE
    /\ ReadbackOf(busLog, target_partition) # loc.firmware

(* flag block holds a valid record naming a partition with complete       *)
(* firmware: the firmware it held before the call or the verified image   *)
Bootable(f) ==
    \E p \in {1, 2} :
       /\ FlagRecord(f) = ValidFlag(p)
       /\ \/ BlockData(f, p) = OldImage(p)
          \/ BlockData(f, p) = loc.firmware

FlagTouched == \E i \in 1 .. Len(busLog) : ModifiesBlock(busLog[i], 0)

C3_AddressRestored ==
    (/\ drv.pc = "running"
     /\ drv.call \in {"reload", "write_firmware", "dump_firmware"}
     /\ \/ todo = <<>>
        \/ /\ I.op = "return"
           /\ I.fn \in {"flash_read", "flash_write", "probe_active_flash_partition"})
        => dev.addr = I2C_ADDR_PAGE2

(* a transfer failed inside the scope and the function has returned: the   *)
(* select of page 7 or 5 is directly followed by the select of page 2      *)
C3_Witness ==
    /\ drv.pc = "running" /\ todo = <<>> /\ drv.error = "io"
    /\ Len(busLog) >= 2
    /\ busLog[Len(busLog)] = [k |-> "sel", addr |-> I2C_ADDR_PAGE2]
    /\ busLog[Len(busLog) - 1] \in {[k |-> "sel", addr |-> I2C_ADDR_PAGE7],
                                    [k |-> "sel", addr |-> I2C_ADDR_PAGE5]}
    /\ dev.addr = I2C_ADDR_PAGE2

(* C4: write_firmware with a blob whose length is not FLASH_BLOCK_SIZE     *)
(* fails without any bus operation: registers, write protection and flash  *)
(* are as they were at the call.                                           *)
C4_SizeRejected ==
    (InWriteFirmware /\ Len(loc.firmware) # FLASH_BLOCK_SIZE) =>
       /\ busLog = <<>>
       /\ dev = drv.pre.dev
       /\ flash = drv.pre.flash
       /\ Returned => drv.ret = "FALSE"

C4_Witness ==
    /\ InWriteFirmware /\ Returned /\ drv.error = "invalid_size"
    /\ Len(loc.firmware) = FLASH_BLOCK_SIZE + 1

(* C5: for every active partition in 1..3 the target differs from it (2    *)
(* for 1, else 1), erase commands address block target or the flag block  *)
(* at offset 0, and no erase command or window write addresses the block   *)
(* of the active partition, which stays as it was.                         *)
C5_ActiveUntouched ==
    InWriteFirmware =>
       /\ self.active_partition \in 1 .. 3
       /\ target_partition # self.active_partition
       /\ target_partition = (IF self.active_partition = 1 THEN 2 ELSE 1)
       /\ \A i \in 1 .. Len(busLog) :
             /\ ~ModifiesBlock(busLog[i], self.active_partition)
             /\ IsErase(busLog[i]) =>
                   busLog[i].cmd \in {<<CMD_BLOCK_ERASE, target_partition, 0, 0>>,
                                      <<CMD_BLOCK_ERASE, 0, 0, 0>>}
             /\ IsWindowWrite(busLog[i]) =>
                   BlockOf(busLog[i].addr) \in {target_partition, 0}
       /\ BlockData(flash, self.active_partition)
             = BlockData(drv.pre.flash, self.active_partition)

(* the boot partition is active and partition 1 has been erased and written *)
C5_Witness ==
    /\ InWriteFirmware /\ self.active_partition = 3
    /\ Len(WrittenTo(busLog, 1)) = FLASH_BLOCK_SIZE
    /\ \E i \in 1 .. Len(busLog) : IsErase(busLog[i]) /\ busLog[i].cmd[2] = 1

(* C6: write_firmware returns TRUE only if the readback of the target      *)
(* partition equalled the image and the readback of the flag record        *)
(* equalled the flag record; the target was then erased, all image bytes   *)
(* were written to it, and the flag record was written after that.         *)
C6_SuccessMeansVerified ==
    (InWriteFirmware /\ Succeeded) =>
       /\ ReadbackOf(busLog, target_partition) = loc.firmware
       /\ SubSeq(ReadbackOf(busLog, 0), 1, 4) = ValidFlag(target_partition)
       /\ WrittenTo(busLog, target_partition) = loc.firmware
       /\ \E e \in Indexes(LAMBDA x : IsErase(x) /\ x.cmd[2] = target_partition) :
             \A w \in Indexes(LAMBDA x : IsWindowWrite(x)
                                         /\ BlockOf(x.addr) = target_partition) :
                /\ e < w
                /\ \A g \in Indexes(LAMBDA x : IsWindowWrite(x) /\ BlockOf(x.addr) = 0) :
                      w < g
       /\ Indexes(LAMBDA x : IsWindowWrite(x) /\ BlockOf(x.addr) = 0) # {}
       /\ BlockData(flash, target_partition) = loc.firmware
       /\ FlagRecord(flash) = ValidFlag(target_partition)

C6_Witness ==
    /\ InWriteFirmware /\ Succeeded
    /\ self.active_partition = 2
    /\ BlockData(flash, 1) = loc.firmware

(* C7: the flag record written is the 4 bytes 0x55, 0xaa, t, (1 - t) mod   *)
(* 256 for the target t: 55 aa 02 ff when partition 1 is active and        *)
(* 55 aa 01 00 when partition 2 or 3 is; it is written at flash address 0. *)
C7_FlagRecord ==
    InWriteFirmware =>
       \A i \in 1 .. Len(busLog) :
          (IsWindowWrite(busLog[i]) /\ BlockOf(busLog[i].addr) = 0) =>
             /\ busLog[i].addr = 0
             /\ busLog[i].data = (IF self.active_partition = 1
                                  THEN <<85, 170, 2, 255>> ELSE <<85, 170, 1, 0>>)
             /\ busLog[i].data = <<85, 170, target_partition,
                                   (1 - target_partition) % 256>>

C7_Witness ==
    /\ InWriteFirmware /\ self.active_partition = 1
    /\ \E i \in 1 .. Len(busLog) :
          IsWindowWrite(busLog[i]) /\ busLog[i].data = <<85, 170, 2, 255>>
    /\ FlagRecord(flash) = <<85, 170, 2, 255>>

(* the events of a run that the ordering of the steps is about: writes of   *)
(* the write-protect register, SPI commands, completions reported to the   *)
(* host, window writes and window reads                                    *)
RECURSIVE Milestones(_)
Milestones(log) ==
    IF log = <<>> THEN <<>>
    ELSE LET e == Head(log)
         IN  (IF e.k = "reg" /\ e.reg = REG_ADDR_WR_PROTECT THEN <<e>>
              ELSE IF e.k \in {"spi", "winw", "winr"} THEN <<e>>
              ELSE IF e.k = "rd" THEN <<[k |-> "rd", reg |-> e.reg]>>
              ELSE <<>>) \o Milestones(Tail(log))

WindowsOf(kind, base, data) ==
    [j \in 1 .. PagesPerBlock |->
        [k |-> kind, addr |-> base + (j - 1) * WindowSize,
         data |-> SubSeq(data, (j - 1) * WindowSize + 1, j * WindowSize)]]

ReadyObserved == <<[k |-> "spi", cmd |-> <<CMD_READ_SR>>],
                   [k |-> "rd", reg |-> REG_ADDR_RD_FIFO]>>

ErasedBlock(b) ==
    <<[k |-> "spi", cmd |-> <<CMD_WRITE_ENABLE>>],
      [k |-> "spi", cmd |-> <<CMD_BLOCK_ERASE, b, 0, 0>>],
      [k |-> "rd", reg |-> REG_ADDR_SPI_STATUS]>> \o ReadyObserved

ExpectedRun(t, image) ==
    <<[k |-> "reg", reg |-> REG_ADDR_WR_PROTECT, val |-> WR_PROTECT_DISABLE]>>
    \o <<[k |-> "spi", cmd |-> <<80>>], [k |-> "spi", cmd |-> <<1, 128, 0>>]>>
    \o ReadyObserved
    \o ErasedBlock(t)
    \o WindowsOf("winw", t * FLASH_BLOCK_SIZE, image)
    \o WindowsOf("winr", t * FLASH_BLOCK_SIZE, image)
    \o ErasedBlock(0)
    \o <<[k |-> "winw", addr |-> 0, data |-> ValidFlag(t)]>>
    \o <<[k |-> "winr", addr |-> 0,
          data |-> [i \in 1 .. WindowSize |->
                       IF i <= 4 THEN ValidFlag(t)[i] ELSE ERASED]]>>
    \o <<[k |-> "spi", cmd |-> <<80>>], [k |-> "spi", cmd |-> <<1, 140, 0>>]>>
    \o <<[k |-> "reg", reg |-> REG_ADDR_WR_PROTECT, val |-> 0]>>

(* C8: a successful write_firmware performs every step, in this order:     *)
(* write-protect disabled; volatile SR write-enable, SR write clearing     *)
(* block protection, flash ready; target block erased; image written;      *)
(* target read back (equal to the image); flag block erased, flag record   *)
(* written and read back; volatile SR write-enable, SR write setting block *)
(* protection, and write-protect reasserted as the last bus operation.     *)
C8_StepOrder ==
    (InWriteFirmware /\ Succeeded) =>
       /\ Milestones(busLog) = ExpectedRun(target_partition, loc.firmware)
       /\ busLog[Len(busLog)] = [k |-> "reg", reg |-> REG_ADDR_WR_PROTECT, val |-> 0]

C8_Witness ==
    /\ InWriteFirmware /\ Succeeded
    /\ self.active_partition = 1
    /\ dev.wp = 0 /\ dev.sr = 140
    /\ Len(Milestones(busLog)) = 20 + 2 * PagesPerBlock

(* the step does nothing on the bus but re-select page 2 *)
NoTransfer ==
    /\ flash' = flash
    /\ [dev' EXCEPT !.addr = dev.addr] = dev
    /\ busLog' \in {busLog, Append(busLog, [k |-> "sel", addr |-> I2C_ADDR_PAGE2])}

(* C9 (as claimed): once a step of write_firmware has failed, that is once *)
(* a primitive has reported an error, no further bus operation is issued:  *)
(* no later step, no retry, no rollback.                                   *)
C9_Original ==
    [][(InWriteFirmware /\ drv.pc = "running"
        /\ (drv.failed \/ drv.error # "none")) => NoTransfer]_vars

(* what the code does guarantee: once a function has returned FALSE no     *)
(* further bus operation is issued                                         *)
C9_AfterReturnFalse ==
    [][(InWriteFirmware /\ drv.pc = "running" /\ drv.failed) => NoTransfer]_vars

(* ------------------------------ Goodix: receive ------------------------ *)
InReceive == gx.pc \in {"recv", "xfer_ok", "xfer_failed"}

(* a frame that carries its payload and the checksum of header and payload, *)
(* and whose payload the body parser accepts                                *)
WellFormed(r) ==
    /\ Len(r) >= PACKAGE_HEADER_SIZE + 4
    /\ Len(r) = PACKAGE_HEADER_SIZE + r[1] + 4
    /\ SubSeq(r, Len(r) - 3, Len(r))
         = Uint32LE(gx_proto_crc32_calc(r, Len(r) - 4))
    /\ r[1] >= 1
    /\ (r[2] = GX_CMD_ACK => r[1] >= 2)

(* the valid frames among the replies of the device *)
ValidFrames == {r \in GxReplies : WellFormed(r)}

ParsedContent(r) ==
    [cmd0 |-> r[2], result |-> r[PACKAGE_HEADER_SIZE + 1],
     body |-> SubSeq(r, PACKAGE_HEADER_SIZE + 1, PACKAGE_HEADER_SIZE + r[1])]

(* the reads receive passes over *)
Skipped(r, data_reply) ==
    \/ r = <<>>
    \/ data_reply /\ (r \in ValidFrames) /\ r[2] = GX_CMD_ACK

AllSkipped(h, n, data_reply) == \A i \in 1 .. n : Skipped(h[i], data_reply)

(* C10: receive passes over every zero-length read and, when the caller    *)
(* waits for a data reply, over every valid ACK frame, and over nothing    *)
(* else: while it is still reading, every read so far was one of these;    *)
(* as soon as the reads are such a run followed by a valid frame that is   *)
(* not passed over (an ACK included when the caller does not wait for a    *)
(* data reply), it has returned success with the parsed content of that    *)
(* frame; and whenever it returns success, the response is the parsed      *)
(* content of the last frame read and every earlier read was passed over.  *)
C10_ReceiveSkips ==
    InReceive =>
        LET h == gx.rx
            n == Len(h)
            dr == gx.req.data_reply
        IN  /\ gx.pc = "recv" => AllSkipped(h, n, dr)
            /\ (/\ n >= 1
                /\ AllSkipped(h, n - 1, dr)
                /\ (h[n] \in ValidFrames)
                /\ ~Skipped(h[n], dr))
               => gx.pc = "xfer_ok" /\ gx.response = ParsedContent(h[n])
            /\ gx.pc = "xfer_ok"
               => /\ n >= 1
                  /\ AllSkipped(h, n - 1, dr)
                  /\ ~Skipped(h[n], dr)
                  /\ Len(h[n]) >= PACKAGE_HEADER_SIZE + h[n][1]
                  /\ gx.response = ParsedContent(h[n])

(* three zero-length reads and an ACK, then a data frame, returned *)
C10_Witness ==
    /\ gx.pc = "xfer_ok"
    /\ gx.req.data_reply
    /\ Len(gx.rx) = 5
    /\ Cardinality({i \in 1 .. 4 : gx.rx[i] = <<>>}) = 3
    /\ \E i \in 1 .. 4 : (gx.rx[i] \in ValidFrames) /\ gx.rx[i][2] = GX_CMD_ACK
    /\ (gx.rx[5] \in ValidFrames)
    /\ gx.response = ParsedContent(gx.rx[5])

(* an ACK returned to a caller that does not wait for a data reply *)
C10_AckReturned ==
    /\ gx.pc = "xfer_ok"
    /\ ~gx.req.data_reply
    /\ gx.rx[Len(gx.rx)][2] = GX_CMD_ACK
    /\ gx.response.cmd0 = GX_CMD_ACK
(* --------------------------- Goodix: termination ----------------------- *)
(* C11: every call of receive returns, whatever the device does: a call    *)
(* that is reading eventually stops reading (with a frame or an error).    *)
C11_Original == (gx.pc = "recv") ~> (gx.pc # "recv")

(* what does hold of receive: a call returns unless the device answers     *)
(* every read with a zero-length packet or, to a caller waiting for a data *)
(* reply, with a valid ACK frame; a read that fails is not retried.        *)
C11_ReturnsUnlessAllSkipped ==
    (gx.pc = "recv")
        ~> \/ gx.pc # "recv"
           \/ /\ Len(gx.rx) = GxMaxReads
              /\ AllSkipped(gx.rx, GxMaxReads, gx.req.data_reply)

(* receive is still reading after more than GxMaxReads reads, all of them  *)
(* passed over                                                             *)
C11_StillReading ==
    /\ gx.pc = "recv"
    /\ Len(gx.rx) = GxMaxReads
    /\ gx.older = 1
    /\ AllSkipped(gx.rx, GxMaxReads, gx.req.data_reply)

(* ------------------------------ Goodix: checksum ----------------------- *)
(* the error the running exchange has reported to its caller *)
GxXferError == IF gx.op = "attach" THEN gx.error ELSE gx.error_local

(* the replies that carry the payload their header declares and four more  *)
(* bytes, which are not the checksum of header and payload                 *)
BadCrcFrames ==
    {r \in GxReplies :
        /\ Len(r) >= PACKAGE_HEADER_SIZE
        /\ Len(r) >= PACKAGE_HEADER_SIZE + r[1] + 4
        /\ SubSeq(r, PACKAGE_HEADER_SIZE + r[1] + 1, PACKAGE_HEADER_SIZE + r[1] + 4)
             # Uint32LE(gx_proto_crc32_calc(r, PACKAGE_HEADER_SIZE + r[1]))}

(* C12: a frame read by receive whose trailing CRC32 is not the CRC32 of   *)
(* its header and payload makes receive and the exchange fail with the     *)
(* checksum error: it is the last read of the call, never passed over,     *)
(* also when it is an ACK read for a caller that waits for a data reply.   *)
C12_BadChecksumFails ==
    InReceive =>
        \A i \in 1 .. Len(gx.rx) :
            gx.rx[i] \in BadCrcFrames
                => /\ i = Len(gx.rx)
                   /\ gx.pc = "xfer_failed"
                   /\ GxXferError = "invalid_checksum"

(* an ACK with a wrong checksum, read after a zero-length packet by a      *)
(* caller that waits for a data reply, has failed the exchange             *)
C12_Witness ==
    /\ gx.pc = "xfer_failed"
    /\ gx.req.data_reply
    /\ Len(gx.rx) = 2
    /\ gx.rx[1] = <<>>
    /\ gx.rx[2] \in BadCrcFrames
    /\ gx.rx[2][2] = GX_CMD_ACK
    /\ GxXferError = "invalid_checksum"

(* ------------------------------ Goodix: send --------------------------- *)
Last(q) == q[Len(q)]

(* length of the frame of the running exchange: header, payload, CRC32 *)
FrameLength == PACKAGE_HEADER_SIZE + Len(gx.req.request) + 4

(* C13: send first transfers a zero-length packet and then the frame. A    *)
(* failed transfer of the zero-length packet ends send with an error and   *)
(* nothing is transmitted; the frame is transferred only right after the   *)
(* zero-length packet went out; send fails when the transfer of the frame  *)
(* fails or when the count of bytes transferred is not the frame length    *)
(* (header + payload + 4), and succeeds (receive starts) otherwise, the    *)
(* whole frame having been transmitted.                                    *)
C13_SendOrder ==
    [][ /\ gx.pc = "send_zlp"
           => \/ /\ gx.pc' = "send_frame"
                 /\ gx.tx' = Append(gx.tx, <<>>)
              \/ /\ gx.pc' = "xfer_failed"
                 /\ gx.tx' = gx.tx
                 /\ GxXferError' = "failed_to_request"
        /\ gx.pc' = "send_frame" => gx.pc = "send_zlp"
        /\ gx.pc = "send_frame"
           => /\ gx.tx # <<>> /\ Last(gx.tx) = <<>>
              /\ \/ /\ gx.pc' = "recv"
                    /\ gx.tx' = Append(gx.tx, BuildFrame(gx.req.cmd0, gx.req.cmd1,
                                                         gx.req.pkg_eop, gx.req.request))
                    /\ Len(Last(gx.tx')) = FrameLength
                 \/ /\ gx.pc' = "xfer_failed"
                    /\ gx.tx' = gx.tx
                    /\ GxXferError' = "failed_to_request"
                 \/ /\ gx.pc' = "xfer_failed"
                    /\ Len(gx.tx') = Len(gx.tx) + 1
                    /\ Len(Last(gx.tx')) # FrameLength
                    /\ GxXferError' = "invalid_length"
        /\ gx.pc' = "recv" /\ gx.pc # "recv" => gx.pc = "send_frame"
      ]_vars

(* send has failed on a short transfer of the frame of a firmware block,   *)
(* made after the zero-length packet                                       *)
C13_Witness ==
    /\ gx.pc = "xfer_failed"
    /\ gx.op = "write_firmware" /\ gx.i >= 1
    /\ GxXferError = "invalid_length"
    /\ Len(gx.tx) >= 2
    /\ gx.tx[Len(gx.tx) - 1] = <<>>
    /\ Len(Last(gx.tx)) = FrameLength - 1
    /\ gx.rx = <<>>

(* ------------------------------ Goodix: exchange ----------------------- *)
SendErrors == {"failed_to_request", "invalid_length"}

(* the send leg of the running exchange is complete: the zero-length       *)
(* packet and the whole frame are the last two transfers                   *)
SendComplete ==
    /\ Len(gx.tx) >= 2
    /\ gx.tx[Len(gx.tx) - 1] = <<>>
    /\ Last(gx.tx) = BuildFrame(gx.req.cmd0, gx.req.cmd1, gx.req.pkg_eop,
                                gx.req.request)

(* a step that makes a read of the receive leg: it records a reply, or it  *)
(* reports a failed read                                                   *)
ReadStep ==
    \/ gx.rx' # gx.rx /\ gx.rx' # <<>>
    \/ gx.pc = "recv" /\ gx.pc' = "xfer_failed"

(* C14: in an exchange every read of the receive leg is made after the     *)
(* send leg is complete; when send fails, the exchange fails with the      *)
(* error of send and no read has been made; no read is made in an exchange *)
(* that has failed.                                                        *)
C14_SendBeforeReceive ==
    [][ /\ ReadStep => gx.pc = "recv" /\ SendComplete
        /\ gx.pc = "recv" => SendComplete
        /\ gx.pc \in {"send_zlp", "send_frame"}
           => /\ gx.rx = <<>> /\ gx.rx' = <<>>
              /\ gx.pc' \in {"send_frame", "recv", "xfer_failed"}
              /\ gx.pc' = "xfer_failed" => GxXferError' \in SendErrors
        /\ gx.pc = "xfer_failed" /\ GxXferError \in SendErrors
           => gx.rx = <<>> /\ gx.rx' = <<>> /\ gx.pc' # "recv"
      ]_vars

(* attach: the zero-length packet went out, the transfer of the frame      *)
(* failed, the exchange has failed and nothing was read                    *)
C14_Witness ==
    /\ gx.op = "attach"
    /\ gx.pc = "xfer_failed"
    /\ gx.error = "failed_to_request"
    /\ gx.tx = <<<<>>>>
    /\ gx.rx = <<>>

AtPollCheck == Running /\ I.op = "poll_check"
PollHit == BitAnd(loc.value, I.mask) = I.expected

(* lspcon_poll_register is at the register read of one of its iterations *)
AtPollRead ==
    /\ Running
    /\ Len(todo) >= 2
    /\ I.op = "i2c_read" /\ I.dst = "value"
    /\ todo[2].op = "poll_check"

(* C16: lspcon_poll_register returns success on the first read whose value *)
(* satisfies (value & mask) = expected, whichever read it is, and makes no *)
(* further read; on a read that does not satisfy it, it reads again or,    *)
(* the deadline having elapsed, fails with the timeout error that carries  *)
(* the value read; it compares only what a successful read of its own      *)
(* returned, so it makes at least one read; a read that fails ends the     *)
(* poll at once with the error of the read.                                *)
C16_Poll ==
    [][ /\ AtPollCheck /\ PollHit
           => /\ todo' = Tail(todo)
              /\ drv' = drv /\ busLog' = busLog /\ dev' = dev
        /\ AtPollCheck /\ ~PollHit
           => \/ /\ I.n < MaxPolls
                 /\ drv' = drv /\ busLog' = busLog
                 /\ todo' = lspcon_read_register(I.reg, "value")
                             \o <<[I EXCEPT !.n = @ + 1]>> \o Tail(todo)
              \/ /\ drv'.failed /\ ~drv.failed
                 /\ drv'.error = "timeout" /\ drv'.errval = loc.value
                 /\ todo' = Unwind /\ busLog' = busLog
        /\ (AtPollCheck' /\ todo' # todo)
           => /\ AtPollRead
              /\ todo' = Tail(todo)
              /\ \E fin \in BOOLEAN : loc'.value = DevI2cRead(dev, flash, 1, fin).data[1]
        /\ AtPollRead
           => \/ todo' = Tail(todo) /\ drv' = drv
              \/ /\ drv'.failed /\ ~drv.failed
                 /\ drv'.error = "io"
                 /\ todo' = Unwind /\ busLog' = busLog
      ]_vars

(* the sector-erase status satisfies the condition on the last read the    *)
(* deadline allows, not before: the poll is about to return success        *)
C16_Witness ==
    /\ AtPollCheck
    /\ I.reg = REG_ADDR_SPI_STATUS
    /\ I.n = MaxPolls
    /\ PollHit

(* ------------------------------ transfer units ------------------------- *)
RECURSIVE Concat(_)
Concat(q) == IF q = <<>> THEN <<>> ELSE Head(q) \o Concat(Tail(q))

CeilDiv(a, b) == (a + b - 1) \div b

(* the payloads q cut an image of length L into units of n bytes *)
CutsInto(q, image, n) ==
    /\ Len(q) = CeilDiv(Len(image), n)
    /\ \A k \in 1 .. Len(q) :
          /\ k < Len(q) => Len(q[k]) = n
          /\ Len(q[k]) >= 1 /\ Len(q[k]) <= n
          /\ q[k] = SubSeq(image, (k - 1) * n + 1, (k - 1) * n + Len(q[k]))
    /\ Concat(q) = image

(* C17: the units of an image of length L are transferred in ascending,    *)
(* contiguous, non-overlapping order, there are ceil(L/n) of them, only    *)
(* the last may be shorter than n, and their payloads concatenated are the *)
(* image: the window writes of flash_write with n = WindowSize, each at    *)
(* the base address plus the bytes before it, and the block requests of    *)
(* the Goodix write_firmware with n = GxBlockSize.                         *)
C17_Units ==
    /\ gx.pc \in {"chunk_written", "chunk_blocks", "chunk_done"}
       => /\ CutsInto([k \in 1 .. Len(gx.units) |-> gx.units[k].data],
                      gx.image, WindowSize)
          /\ \A k \in 1 .. Len(gx.units) :
                gx.units[k].address = gx.base_address + (k - 1) * WindowSize
    /\ gx.pc = "chunk_blocks"
       => /\ gx.i = Len(gx.requests)
          /\ gx.requests = SubSeq(gx.chunks, 1, gx.i)
    /\ gx.pc = "chunk_done"
       => CutsInto(gx.requests, gx.image, GxBlockSize)

(* an image whose length is a multiple of neither unit has been cut: both  *)
(* transfers end with a short unit                                         *)
C17_Witness ==
    /\ gx.pc = "chunk_done"
    /\ Len(gx.units) >= 2
    /\ Len(Last(gx.units).data) < WindowSize
    /\ Len(gx.requests) >= 2
    /\ Len(Last(gx.requests)) < GxBlockSize

(* ------------------------------ Goodix: setup -------------------------- *)
(* C18: setup returns success whatever the version exchange did: when the  *)
(* exchange has failed (send error, read error, wrong checksum, invalid    *)
(* frame) the version stays unset and setup returns TRUE; the version is   *)
(* set by setup after an exchange that succeeded, and by nothing else.     *)
C18_SetupSucceeds ==
    [][ /\ (gx.op = "setup" /\ gx.pc \in {"xfer_ok", "xfer_failed"})
           => /\ gx.pc' = "idle"
              /\ gx.ret' = "TRUE"
              /\ gx.pc = "xfer_failed"
                    => /\ gx.version = "NULL" /\ gx.version' = "NULL"
                       /\ gx.error_local \in
                             SendErrors \cup {"failed_to_reply", "invalid_checksum",
                                              "invalid_value"}
              /\ gx.pc = "xfer_ok" => gx.version' # "NULL"
        /\ (gx.op' = "setup" /\ gx.pc' = "idle") => gx.ret' = "TRUE"
        /\ gx.version' # gx.version => gx.op = "setup" /\ gx.pc = "xfer_ok"
      ]_vars

(* setup has returned success without a version after a reply with a wrong *)
(* checksum                                                                *)
C18_Witness ==
    /\ gx.op = "setup"
    /\ gx.pc = "idle"
    /\ gx.ret = "TRUE"
    /\ gx.version = "NULL"
    /\ gx.error_local = "invalid_checksum"

(* ------------------------------ LSPCON: reload ------------------------- *)
(* reload has read a valid active partition and has then failed to obtain  *)
(* the version: no aux device name, aux device not found or not unique,    *)
(* aux device not opened, OUI mismatch, DPCD read failure                  *)
VersionNotObtained ==
    /\ drv.call = "reload"
    /\ self.active_partition \in 1 .. 3
    /\ drv.error \in {"not_supported", "aux_io"}

(* C19: when reload cannot obtain the firmware version after it has read   *)
(* the active partition, it leaves the version unset and returns success.  *)
C19_Original ==
    (drv.pc = "idle" /\ VersionNotObtained)
        => drv.ret = "TRUE" /\ self.version = "NULL"

(* ------------------------------ LSPCON: open --------------------------- *)
InOpen == drv.call = "open" /\ Running

(* C20: open selects page 2 right after the bus handle is acquired: the    *)
(* step after a successful parent open is the selection of page 2, and     *)
(* nothing else is issued; when the parent open fails, open fails and no   *)
(* selection is issued; when the selection fails, open fails; after a      *)
(* successful open the selected address is page 2, whatever it was.        *)
C20_OpenSelectsPage2 ==
    [][ /\ InOpen /\ I.op = "parent_open"
           => /\ dev' = dev /\ busLog' = busLog /\ busLog = <<>>
              /\ \/ /\ drv' = drv
                    /\ todo' = <<[op |-> "ioctl", addr |-> I2C_ADDR_PAGE2]>>
                 \/ /\ drv'.failed
                    /\ todo' = <<>>
        /\ InOpen /\ I.op = "ioctl"
           => /\ todo' = <<>>
              /\ \/ /\ ~drv'.failed
                    /\ dev'.addr = I2C_ADDR_PAGE2
                    /\ busLog' = <<[k |-> "sel", addr |-> I2C_ADDR_PAGE2]>>
                 \/ /\ drv'.failed
                    /\ dev' = dev /\ busLog' = busLog
        /\ InOpen => I.op \in {"parent_open", "ioctl"}
        /\ (drv.call' = "open" /\ drv.pc' = "idle")
           => IF drv.ret' = "TRUE"
              THEN /\ dev'.addr = I2C_ADDR_PAGE2
                   /\ busLog' = <<[k |-> "sel", addr |-> I2C_ADDR_PAGE2]>>
              ELSE /\ drv.ret' = "FALSE"
                   /\ busLog' = <<>>
                   /\ dev'.addr = drv.pre'.dev.addr
      ]_vars

(* open has succeeded on a bus handle whose address was not page 2 *)
C20_Witness ==
    /\ drv.call = "open"
    /\ drv.pc = "idle"
    /\ drv.ret = "TRUE"
    /\ drv.pre.dev.addr # I2C_ADDR_PAGE2
    /\ dev.addr = I2C_ADDR_PAGE2

(* ------------------------------ LSPCON: probe -------------------------- *)
InProbe == drv.call = "probe" /\ Running
ProbeAccepts == loc.device_name = "PS175" /\ self.aux_device_name # "NULL"

(* C21: probe rejects the device with the not-supported error, without     *)
(* calling the probe of the parent class, whenever the device name is not  *)
(* "PS175" or no aux device name is configured; the probe of the parent    *)
(* class is called, and probe can succeed, only when both hold.            *)
C21_ProbeRejects ==
    /\ (InProbe /\ I.op = "parent_probe") => ProbeAccepts
    /\ (drv.call = "probe" /\ drv.pc = "idle")
       => /\ ~ProbeAccepts => drv.ret = "FALSE" /\ drv.error = "not_supported"
          /\ drv.ret = "TRUE" => ProbeAccepts
          /\ drv.error = "probe" => ProbeAccepts
          /\ busLog = <<>>

(* a PS175 without an aux device name has been rejected *)
C21_Witness ==
    /\ drv.call = "probe"
    /\ drv.pc = "idle"
    /\ drv.ret = "FALSE"
    /\ drv.error = "not_supported"
    /\ loc.device_name = "PS175"
    /\ self.aux_device_name = "NULL"

(* ------------------------------ LSPCON: erase -------------------------- *)
IsPrefix(p, q) == Len(p) <= Len(q) /\ SubSeq(q, 1, Len(p)) = p

InErase == drv.call = "flash_erase_block"

EraseArgsValid ==
    loc.base_address % FLASH_BLOCK_SIZE = 0 /\ loc.len = FLASH_BLOCK_SIZE

(* C22: flash_erase_block issues write-enable and then the block-erase      *)
(* command with the address of the block; it returns TRUE only after it    *)
(* has seen, in this order, the erase field of SPI_STATUS clear and then   *)
(* the busy bit of the status register clear; a timeout or a bus error     *)
(* makes it return FALSE; with an address that is not block-aligned or a   *)
(* size other than one block it returns FALSE without any bus operation.   *)
C22_EraseOrder ==
    InErase =>
        /\ ~EraseArgsValid => busLog = <<>> /\ drv.ret # "TRUE" /\ dev = drv.pre.dev
        /\ EraseArgsValid
           => IsPrefix(Milestones(busLog), ErasedBlock(AddrHi(loc.base_address)))
        /\ drv.error \in {"timeout", "i2c_write", "i2c_read"} => drv.ret # "TRUE"
        /\ drv.ret = "TRUE"
           => /\ EraseArgsValid
              /\ Milestones(busLog) = ErasedBlock(AddrHi(loc.base_address))
              /\ drv.error = "none"

C22_Witness ==
    /\ InErase /\ drv.pc = "idle" /\ drv.ret = "TRUE"
    /\ loc.base_address = FLASH_BLOCK_SIZE

C22_RejectedWitness ==
    /\ InErase /\ drv.pc = "idle" /\ drv.ret = "FALSE"
    /\ loc.base_address = WindowSize /\ busLog = <<>>

(* ------------------------------ LSPCON: read --------------------------- *)
InRead == drv.call = "flash_read"

ReadSucceeded == InRead /\ drv.pc = "idle" /\ drv.ret = "TRUE"

(* the windows that the range base .. base + len - 1 overlaps *)
FirstWindow == loc.base_address \div WindowSize
LastWindow == (loc.base_address + loc.len - 1) \div WindowSize

(* what mapping and reading the window w shows on the bus *)
MappedRead(w) ==
    <<[k |-> "reg", reg |-> REG_ADDR_FLASH_ADDR_HI, val |-> AddrHi(w * WindowSize)],
      [k |-> "reg", reg |-> REG_ADDR_FLASH_ADDR_LO, val |-> AddrMid(w * WindowSize)],
      [k |-> "winr", addr |-> w * WindowSize,
       data |-> [i \in 1 .. WindowSize |-> flash[w * WindowSize + i - 1]]]>>

RECURSIVE MappedReads(_, _)
MappedReads(w, last) ==
    IF w > last THEN <<>> ELSE MappedRead(w) \o MappedReads(w + 1, last)

RegsAndWindows(log) == SelectSeq(log, LAMBDA e : e.k \in {"reg", "winr", "winw", "spi"})

(* C23: for every base address, aligned or not, and every length len > 0,  *)
(* a flash_read that succeeds returns the flash bytes base .. base+len-1   *)
(* in order; it maps and reads one full window for every window the range  *)
(* overlaps, in ascending order, and takes from each window only the bytes *)
(* of the range.                                                           *)
C23_ReadRange ==
    ReadSucceeded =>
        /\ loc.readback_buf = [i \in 1 .. loc.len |-> flash[loc.base_address + i - 1]]
        /\ RegsAndWindows(busLog) = MappedReads(FirstWindow, LastWindow)
        /\ flash = drv.pre.flash

C23_Witness ==
    /\ ReadSucceeded
    /\ loc.base_address % WindowSize = WindowSize - 1
    /\ loc.len = WindowSize + 2
    /\ \E i, j \in 1 .. loc.len : loc.readback_buf[i] # loc.readback_buf[j]

(* ------------------------------ LSPCON: write -------------------------- *)
InWrite == drv.call = "flash_write"

RegWritten(reg, val) == [k |-> "reg", reg |-> reg, val |-> val]

(* what mapping the page of chunk j (from 0) and writing the chunk to the   *)
(* window shows on the bus                                                 *)
MappedWrite(base, data, j) ==
    LET address == base + j * WindowSize
    IN  <<RegWritten(REG_ADDR_FLASH_ADDR_HI, AddrHi(address)),
          RegWritten(REG_ADDR_FLASH_ADDR_LO, AddrMid(address)),
          [k |-> "winw", addr |-> address,
           data |-> SubSeq(data, j * WindowSize + 1,
                           Min((j + 1) * WindowSize, Len(data)))]>>

RECURSIVE MappedWrites(_, _, _)
MappedWrites(base, data, j) ==
    IF j * WindowSize >= Len(data) THEN <<>>
    ELSE MappedWrite(base, data, j) \o MappedWrites(base, data, j + 1)

WriteRun(base, data) ==
    [i \in 1 .. Len(unlock_writes) |-> RegWritten(REG_ADDR_MAP_WRITE, unlock_writes[i])]
    \o <<RegWritten(REG_ADDR_CLT2SPI, 32), RegWritten(REG_ADDR_CLT2SPI, 0)>>
    \o MappedWrites(base, data, 0)
    \o <<RegWritten(REG_ADDR_MAP_WRITE, 0)>>

Transfers(log) == SelectSeq(log, LAMBDA e : e.k # "sel")

(* C24: flash_write writes the unlock sequence to the map-write register   *)
(* and resets the SPI bridge before the first chunk; for every chunk it    *)
(* maps the page of the chunk and issues one window write of offset 0 and  *)
(* the chunk bytes; after the last chunk it writes 0 to the map-write      *)
(* register; a base address that is not window-aligned is rejected         *)
(* without any bus operation.                                              *)
C24_Original ==
    InWrite =>
        /\ AddrLo(loc.base_address) # 0 => busLog = <<>> /\ drv.ret # "TRUE"
        /\ AddrLo(loc.base_address) = 0
           => IsPrefix(Transfers(busLog), WriteRun(loc.base_address, loc.firmware))
        /\ drv.ret = "TRUE"
           => Transfers(busLog) = WriteRun(loc.base_address, loc.firmware)

(* the sequence is the one of C24 whenever page 7 can be selected *)
C24_WriteRunWhenSelected == I2C_ADDR_PAGE7 \in env.selectable => C24_Original

C24_Written ==
    /\ InWrite /\ drv.pc = "idle" /\ drv.ret = "TRUE"
    /\ Len(loc.firmware) = WindowSize + 1
    /\ I2C_ADDR_PAGE7 \in env.selectable

(* ------------------------------ Goodix: write_firmware ----------------- *)
InGxWrite == gx.op = "write_firmware"

(* the frames transferred so far by the running operation *)
GxFrames == SelectSeq(gx.tx, LAMBDA f : f # <<>>)

InitFrame == BuildFrame(GX_CMD_UPGRADE, GX_CMD_UPGRADE_INIT, 0, <<>>)

BlockFrame(i) ==
    BuildFrame(GX_CMD_UPGRADE, GX_CMD_UPGRADE_DATA,
               IF i = Len(gx.chunks) THEN 0 ELSE 128, gx.chunks[i])

(* the j-th frame of a write_firmware: update-init, then the blocks *)
ExpectedFrame(j) == IF j = 1 THEN InitFrame ELSE BlockFrame(j - 1)

GxFailing == gx.pc = "xfer_failed" \/ gx.ret = "FALSE"

GxInExchange == gx.pc \in {"send_zlp", "send_frame", "recv"}

FramesInOrder ==
    InGxWrite =>
        /\ Len(GxFrames) <= 1 + Len(gx.chunks)
        /\ \A j \in 1 .. Len(GxFrames) :
              IF j < Len(GxFrames) \/ ~GxFailing
              THEN GxFrames[j] = ExpectedFrame(j)
              ELSE IsPrefix(GxFrames[j], ExpectedFrame(j))
        /\ gx.i \in {Len(GxFrames) - 1, Len(GxFrames)} \/ gx.tx = <<>>
        /\ gx.pc \in {"recv", "xfer_ok"} => gx.i = Len(GxFrames) - 1
        /\ gx.i >= 1 /\ GxInExchange
           => /\ gx.req.data_reply = (gx.i = Len(gx.chunks))
              /\ gx.req.pkg_eop = IF gx.i = Len(gx.chunks) THEN 0 ELSE 128
        /\ gx.ret = "TRUE" => Len(GxFrames) = 1 + Len(gx.chunks)

(* C25: in write_firmware the update-init exchange has succeeded before    *)
(* any block is sent; the blocks are sent in ascending order; the last     *)
(* block, and only it, is sent with flag 0 and waits for a data reply,     *)
(* every earlier block is sent with flag 128 and takes an ACK for its      *)
(* response; a failed exchange ends the operation and no further block is  *)
(* sent.                                                                   *)
C25_BlockOrder ==
    /\ []FramesInOrder
    /\ [][
        /\ InGxWrite /\ gx.i = 0 /\ gx.i' = 1
           => gx.pc = "xfer_ok" /\ gx.response.result = 0 /\ GxFrames = <<InitFrame>>
        /\ InGxWrite /\ gx.pc = "recv" /\ gx.pc' = "xfer_ok"
              /\ gx.response.cmd0' = GX_CMD_ACK
           => gx.i >= 1 /\ gx.i < Len(gx.chunks)
        /\ InGxWrite /\ gx.pc = "xfer_failed"
           => gx.pc' = "idle" /\ gx.ret' = "FALSE" /\ gx.tx' = gx.tx
        /\ InGxWrite /\ gx.pc = "idle" /\ gx.ret = "FALSE" => gx.tx' = gx.tx
      ]_vars

C25_Witness ==
    /\ InGxWrite /\ gx.pc = "idle" /\ gx.ret = "TRUE"
    /\ Len(gx.chunks) = 3 /\ Len(GxFrames) = 4
    /\ gx.response.cmd0 = GX_CMD_UPGRADE

C25_SingleChunk ==
    /\ InGxWrite /\ gx.pc = "idle" /\ gx.ret = "TRUE"
    /\ Len(gx.chunks) = 1 /\ GxFrames[2][4] = 0

C25_AckTaken ==
    /\ InGxWrite /\ gx.pc = "xfer_ok" /\ gx.i = 1 /\ Len(gx.chunks) = 2
    /\ gx.response.cmd0 = GX_CMD_ACK

(* ------------------------------ progress ------------------------------- *)
InTransfer == InWrite \/ InRead

(* the progress reported last: bytes done and bytes in all *)
Current == self.progress[1]
Total == self.progress[2]

(* C26: the progress reported during a transfer counts the bytes already   *)
(* transferred out of the total: the current value never decreases, never  *)
(* exceeds the total, and is the total after the last chunk of a transfer  *)
(* that succeeds.                                                          *)
C26_Original ==
    /\ [](InTransfer => Current <= Total)
    /\ [](InTransfer /\ drv.pc = "idle" /\ drv.ret = "TRUE"
            => Current = loc.len /\ Total = loc.len)
    /\ [][InTransfer /\ InTransfer' => Current' >= Current]_vars

(* flash_read reports the bytes read so far, and the total at its end *)
C26_ReadProgress ==
    /\ [](InRead => Current <= Total)
    /\ [](ReadSucceeded => Current = loc.len /\ Total = loc.len)
    /\ [][InRead /\ InRead' => Current' >= Current]_vars

(* flash_write reports the bytes written before the chunk it has just sent *)
C26_WriteProgress ==
    /\ [](InWrite => Current < Total \/ Total = 0)
    /\ [](InWrite /\ drv.pc = "idle" /\ drv.ret = "TRUE"
            => /\ Total = loc.len
               /\ Current = ((loc.len - 1) \div WindowSize) * WindowSize)
    /\ [][InWrite /\ InWrite' => Current' >= Current]_vars

(* Goodix write_firmware reports the index of the block it has just sent *)
C26_GoodixProgress ==
    [](InGxWrite /\ gx.pc = "idle" /\ gx.ret = "TRUE" /\ gx.chunks # <<>>
         => gx.progress = <<Len(gx.chunks) - 1, Len(gx.chunks)>>)

(* ------------------------------ LSPCON: timeouts ----------------------- *)
TimesOut == Running /\ drv.error # "timeout" /\ drv.error' = "timeout"

(* C27: every timeout error of a poll loop of the driver                   *)
(* (lspcon_poll_register, flash_wait_ready) carries the value of the       *)
(* register or of the status register that was read last.                  *)
C27_Original ==
    [][TimesOut
         => \/ I.op = "poll_check" /\ drv.errval' = loc.value
            \/ I.op = "ready_check" /\ drv.errval' = loc.status_register]_vars

(* the timeout of lspcon_poll_register carries the value read last; the    *)
(* timeout of flash_wait_ready carries no value                            *)
C27_OnlyPollCarriesValue ==
    [][TimesOut
         => \/ I.op = "poll_check" /\ drv.errval' = loc.value
            \/ I.op = "ready_check" /\ drv.errval' = -1]_vars

C27_ReadyTimedOut ==
    /\ drv.pc = "idle" /\ drv.call = "write_firmware"
    /\ drv.error = "timeout" /\ drv.errval = -1
    /\ BitAnd(loc.status_register, 1) = 1

(* ------------------------------ LSPCON: map_page ----------------------- *)
InMapPage == drv.call = "lspcon_map_page"

(* the writes of lspcon_map_page for the address a, as the bus shows them *)
PageSelect(a) ==
    <<RegWritten(REG_ADDR_FLASH_ADDR_HI, (a \div FLASH_BLOCK_SIZE) % 256),
      RegWritten(REG_ADDR_FLASH_ADDR_LO, (a \div WindowSize) % PagesPerBlock)>>

(* what a read of the window would return *)
WindowContents == DevI2cRead([dev EXCEPT !.addr = I2C_ADDR_PAGE7], flash, WindowSize, TRUE).data

(* C28: lspcon_map_page writes the high part of the address to the high    *)
(* page-select register and then the part below it to the low page-select  *)
(* register, so that the window shows the aligned region that holds the    *)
(* address; when the high write fails the low register is not written and  *)
(* the call fails.                                                         *)
C28_MapPage ==
    /\ [](InMapPage => IsPrefix(busLog, PageSelect(loc.base_address)))
    /\ [](InMapPage /\ drv.pc = "idle"
            => IF busLog = PageSelect(loc.base_address)
               THEN /\ drv.ret = "TRUE"
                    /\ WindowContents =
                         [i \in 1 .. WindowSize |->
                            flash[loc.base_address - (loc.base_address % WindowSize)
                                  + i - 1]]
               ELSE drv.ret = "FALSE")
    /\ [][InMapPage /\ drv.failed => busLog' = busLog]_vars

C28_Witness ==
    /\ InMapPage /\ drv.pc = "idle" /\ drv.ret = "TRUE"
    /\ loc.base_address = FLASH_BLOCK_SIZE + WindowSize + 1
    /\ dev.hi = 1 /\ dev.lo = 1

C28_HighWriteFailed ==
    InMapPage /\ drv.pc = "idle" /\ drv.ret = "FALSE" /\ busLog = <<>>

(* ------------------------------ Goodix: attach ------------------------- *)
InGxAttach == gx.op = "attach"

AttachReturns == InGxAttach /\ gx.pc \in {"xfer_ok", "xfer_failed"} /\ gx.pc' = "idle"

ResetAccepted == gx.pc = "xfer_ok" /\ gx.response.result = 0

(* C29: attach sets the wait-for-replug flag if and only if the reset      *)
(* exchange succeeded and the response reported result 0; when the         *)
(* exchange fails or the result is not 0, attach fails and the flag is not *)
(* set.                                                                    *)
C29_ReplugFlag ==
    /\ [](gx.wait_for_replug <=> InGxAttach /\ gx.pc = "idle" /\ gx.ret = "TRUE")
    /\ [](InGxAttach /\ gx.pc = "idle" => gx.ret \in {"TRUE", "FALSE"})
    /\ [][AttachReturns
           => /\ gx.wait_for_replug' <=> ResetAccepted
              /\ gx.ret' = IF ResetAccepted THEN "TRUE" ELSE "FALSE"]_vars

C29_Witness ==
    InGxAttach /\ gx.pc = "idle" /\ gx.ret = "TRUE" /\ gx.wait_for_replug

C29_Refused ==
    /\ InGxAttach /\ gx.pc = "idle" /\ gx.ret = "FALSE" /\ ~gx.wait_for_replug
    /\ gx.response.result # 0 /\ gx.error = "unset"

(* ------------------------------ LSPCON: active partition --------------- *)
InReload == drv.call = "reload"

Partitions == {1, 2, 3}

AtCheckPartition == InReload /\ Running /\ I.op = "check_partition"

(* C30: reload fails with a not-supported error when the active-partition  *)
(* register reads a value outside 1..3; after every reload that succeeds   *)
(* the stored active partition is 1, 2 or 3.                               *)
C30_PartitionRange ==
    /\ [](InReload /\ drv.pc = "idle" /\ drv.ret = "TRUE"
            => self.active_partition \in Partitions
               /\ self.active_partition = dev.partition)
    /\ [](InReload /\ drv.pc = "idle" /\ dev.partition \notin Partitions
            => drv.ret = "FALSE")
    /\ [](AtCheckPartition => self.active_partition = dev.partition)
    /\ [][AtCheckPartition /\ self.active_partition \notin Partitions
           => drv.failed' /\ drv.error' = "not_supported" /\ todo' = <<>>]_vars

C30_Witness ==
    /\ InReload /\ drv.pc = "idle" /\ drv.ret = "FALSE"
    /\ drv.error = "not_supported" /\ dev.partition = 4
    /\ \E i \in 1 .. Len(busLog) :
          busLog[i].k = "rd" /\ busLog[i].reg = REG_ADDR_ACTIVE_PARTITION
                             /\ busLog[i].val = 4

C30_Accepted ==
    InReload /\ drv.pc = "idle" /\ drv.ret = "TRUE" /\ self.active_partition = 3

(* ------------------------------ LSPCON: bus address -------------------- *)
(* the transfer of the step at hand went out on the bus *)
Transferred == Running /\ I.op \in {"i2c_write", "i2c_read"} /\ drv' = drv

(* the offset-prefixed write of flash_write, inside the scope of its guard *)
WindowWriteStep ==
    /\ Running /\ I.op = "i2c_write"
    /\ Len(todo) >= 2 /\ todo[2].op = "guard_dispose"

(* the window read of flash_read *)
WindowReadStep == Running /\ I.op = "i2c_read" /\ I.dst = "page_data"

(* the read of the active-partition register, which is on page 5 *)
PartitionStep ==
    /\ Running
    /\ \/ I.op = "i2c_write" /\ I.data = <<REG_ADDR_ACTIVE_PARTITION>>
       \/ I.op = "i2c_read" /\ I.dst = "data"

RegisterStep ==
    /\ Running /\ I.op \in {"i2c_write", "i2c_read"}
    /\ ~WindowWriteStep /\ ~WindowReadStep /\ ~PartitionStep

(* C31: every window transfer (the window read of flash_read, the window   *)
(* write of flash_write) goes out only while page 7 is selected, and every *)
(* register access only while page 2 is selected; when selecting page 7    *)
(* fails, no window data is transferred.                                   *)
C31_Original ==
    [][ /\ Transferred /\ (WindowWriteStep \/ WindowReadStep)
           => dev.addr = I2C_ADDR_PAGE7 /\ loc.guard
        /\ Transferred /\ RegisterStep => dev.addr = I2C_ADDR_PAGE2
      ]_vars

(* what the code keeps: window reads on page 7, register accesses on page   *)
(* 2, and window writes on page 7 whenever page 7 can be selected          *)
C31_ReadsAndRegisters ==
    [][ /\ Transferred /\ WindowReadStep => dev.addr = I2C_ADDR_PAGE7 /\ loc.guard
        /\ Transferred /\ RegisterStep => dev.addr = I2C_ADDR_PAGE2
        /\ Transferred /\ WindowWriteStep /\ I2C_ADDR_PAGE7 \in env.selectable
           => dev.addr = I2C_ADDR_PAGE7 /\ loc.guard
      ]_vars

(* a chunk went out although page 7 could not be selected *)
C31_ChunkOnPage2 ==
    /\ drv.call = "write_firmware" /\ drv.error = "ioctl" /\ ~drv.failed
    /\ dev.addr = I2C_ADDR_PAGE2
    /\ \E i \in 1 .. Len(busLog) : busLog[i].k = "stray"

(* ------------------------------ Goodix: result codes ------------------- *)
(* an exchange of write_firmware has ended with a response whose result    *)
(* code is not 0                                                           *)
Refused == InGxWrite /\ gx.pc = "xfer_ok" /\ gx.response.result # 0

(* the operation ends here, and not with success *)
EndsWithoutSuccess == gx.pc' \in {"idle", "crashed"} /\ gx.ret' # "TRUE"

(* C32: write_firmware returns success only if the response to update-init *)
(* and the response to every block reported result 0; a result that is not *)
(* 0, for update-init or for a block, makes write_firmware fail.           *)
C32_Original == [][Refused => EndsWithoutSuccess]_vars

(* the result of update-init is looked at, the result of a block is not *)
C32_OnlyInitChecked ==
    [][ /\ Refused /\ gx.i = 0 => EndsWithoutSuccess
        /\ Refused /\ gx.i >= 1
           => IF gx.i = Len(gx.chunks)
              THEN gx.pc' = "idle" /\ gx.ret' = "TRUE"
              ELSE gx.pc' = "block" /\ gx.i' = gx.i + 1
      ]_vars

C32_RefusedBlockSuccess ==
    /\ InGxWrite /\ gx.pc = "idle" /\ gx.ret = "TRUE"
    /\ gx.chunks # <<>> /\ gx.response.result # 0

(* ------------------------------ Goodix: errors ------------------------- *)
GxReturnedFalse ==
    gx.op \in {"attach", "write_firmware"} /\ gx.pc = "idle" /\ gx.ret = "FALSE"

(* the message of error_local is read while error_local is NULL *)
UnsetErrorRead == gx.pc = "crashed"

(* C33: whenever update-init, attach or write_firmware returns failure an  *)
(* error has been set for the caller, and the message of an error that was *)
(* never set is never read, also when the exchange succeeds and the        *)
(* response carries a result that is not 0.                                *)
C33_Original ==
    /\ GxReturnedFalse => gx.error # "unset"
    /\ ~UnsetErrorRead

(* a failure of the exchange itself is always reported with an error *)
C33_TransportErrorsSet ==
    /\ GxReturnedFalse /\ gx.response.result = 0 => gx.error # "unset"
    /\ UnsetErrorRead => InGxWrite /\ gx.i = 0 /\ gx.response.result # 0
                                   /\ gx.error_local = "unset"

C33_AttachWithoutError ==
    /\ gx.op = "attach" /\ gx.pc = "idle" /\ gx.ret = "FALSE"
    /\ gx.error = "unset" /\ gx.response.result # 0

(* ------------------------------ LSPCON: SPI commands ------------------- *)
(* a write that fills the FIFO for a command or triggers it *)
CommandStep ==
    /\ Running /\ I.op = "i2c_write" /\ dev.addr = I2C_ADDR_PAGE2
    /\ Len(I.data) = 2
    /\ \/ I.data[1] = REG_ADDR_WR_FIFO
       \/ I.data[1] = REG_ADDR_SPI_CTL /\ BitAnd(I.data[2], SPI_CTL_TRIGGER) # 0

(* the host has read the status field clear after the last command *)
StatusSeenClear ==
    \E i \in 1 .. Len(busLog) :
        /\ busLog[i].k = "rd" /\ busLog[i].reg = REG_ADDR_SPI_STATUS
        /\ \A j \in (i + 1) .. Len(busLog) : busLog[j].k # "spi"

(* the host has seen the command triggered last complete: it has read the  *)
(* trigger bit clear (the device is then no longer busy for the host), or  *)
(* the status field clear                                                  *)
SeenComplete == ~dev.busy \/ StatusSeenClear

(* C34: a new SPI command is never triggered while the previous one is     *)
(* executing: between the trigger of one command and the FIFO and trigger  *)
(* writes of the next, the code has seen the previous command complete.    *)
C34_Original == [][Transferred /\ CommandStep => SeenComplete]_vars

(* completion is seen after a read-status command and after a block erase; *)
(* it is not waited for after the other commands                           *)
C34_AfterReadStatusAndErase ==
    [][Transferred /\ CommandStep
         /\ (dev.last = <<>> \/ dev.last[1] \in {CMD_READ_SR, CMD_BLOCK_ERASE})
         => SeenComplete]_vars

(* the block-erase command is triggered while write-enable has not been    *)
(* seen complete                                                           *)
C34_EraseOnBusyBridge ==
    /\ dev.busy /\ dev.last # <<>> /\ dev.last[1] = CMD_BLOCK_ERASE
    /\ Len(busLog) >= 2
    /\ busLog[Len(busLog)].k = "spi" /\ busLog[Len(busLog) - 1].k = "spi"
    /\ busLog[Len(busLog) - 1].cmd = <<CMD_WRITE_ENABLE>>

(* ------------------------------ LSPCON: stored partition --------------- *)
ReloadFailed == InReload /\ drv.pc = "idle" /\ drv.ret = "FALSE"

(* C35: when reload fails (partition register unreadable, partition value  *)
(* outside 1..3, version query failure) the stored active partition is the *)
(* one stored before the call; a value outside 1..3 read from the device   *)
(* is never stored.                                                        *)
C35_Original ==
    /\ [](ReloadFailed => self.active_partition = drv.pre.active_partition)
    /\ [][self.active_partition' # self.active_partition
           => self.active_partition' \in Partitions]_vars

(* the stored partition changes only in reload and is then the value the   *)
(* register read; it is left alone when the register cannot be read        *)
C35_StoredAsRead ==
    /\ [][self.active_partition' # self.active_partition
           => InReload /\ self.active_partition' = dev.partition]_vars
    /\ [](ReloadFailed /\ drv.error \in {"io", "ioctl"}
            => self.active_partition = drv.pre.active_partition)

C35_InvalidStored ==
    /\ ReloadFailed /\ drv.error = "not_supported"
    /\ self.active_partition = 4 /\ drv.pre.active_partition = 0

====
